---------------------------- MODULE Spec2Model ----------------------------
(***************************************************************************)
(* Verification model of the osmosis intercepting proxy (fd0/osmosis).     *)
(*                                                                         *)
(* The module holds several specifications over one set of variables, one  *)
(* per subsystem:                                                          *)
(*   SpecCache    proxy/certificate_cache.go  Cache.Get / getOrCreate      *)
(*   SpecProxy    proxy/proxy.go, connect.go  ServeHTTP / ServeConnect     *)
(*   SpecPipeline proxy/proxy.go              Register / hooks / forward   *)
(*   SpecRelay    proxy/proxy.go              ServeProxyRequest (response) *)
(*   SpecEvent    proxy/event.go              raw access to the request    *)
(*   SpecPrepare  proxy/event.go              prepareRequest               *)
(*   SpecCA       certauth (unnamed/part_000) NewCertificate               *)
(*   SpecIDs      proxy/proxy.go              nextRequestID, concurrently  *)
(*   SpecWS       proxy/upgrade.go            copyWSUntilError             *)
(*   SpecWSLive   the same, with the goroutines scheduled fairly           *)
(*   SpecLoad     certauth (unnamed/part_000) Load                         *)
(*   SpecStore    store (unnamed/part_004)    AddRequest / TxnSummaries    *)
(*   SpecKey      store/key.go                Key.Bytes / ParseKey         *)
(*   SpecProbe    proxy/certificate_cache.go  getCertificate               *)
(*   SpecRoute    proxy/proxy.go              ServeProxyRequest (routing)  *)
(***************************************************************************)
EXTENDS Integers, Sequences, FiniteSets, TLC

(***************************************************************************)
(* Bounds of the model.                                                    *)
(***************************************************************************)
\* total number of Cache.Get calls in one behaviour
MaxCalls == 3
\* total number of Events created in one behaviour
MaxEvents == 4
\* total number of hooks registered in one behaviour
MaxHooks == 3
\* number of event.ForwardRequest calls one hook invocation makes at most
MaxForwards == 2
\* length of an upstream response body, in bytes
MaxBody == 2
\* length of a request body, in bytes
MaxReqBody == 2
\* number of header fields of an inbound request
MaxFields == 3
\* number of successive raw reads of one body that are counted
MaxReads == 2
\* length of the list of names passed to NewCertificate
MaxNames == 3
\* number of Upgrade header lines of a request
MaxUpgrades == 2
\* number of messages a WebSocket peer sends
MaxMsgs == 2
\* number of transaction ids the store is given
MaxTxns == 2
\* largest id of a Key that is serialized and parsed back
MaxKeyID == 120
\* number of clock advances in one behaviour
MaxTicks == 2

(***************************************************************************)
(* Certificate cache: proxy/certificate_cache.go                           *)
(***************************************************************************)
VARIABLES
    certs,        \* Cache.certs: cacheKey -> cacheEntry (or NoEntry)
    lastCleanup,  \* Cache.lastCleanup
    mutex,        \* Cache.m: the caller holding it, or NoCaller
    now,          \* the wall clock, in seconds
    ticks,        \* number of clock advances so far
    calls,        \* number of Get calls started so far
    cpc,          \* per caller: position inside Get/getOrCreate
    ckey,         \* per caller: the cacheKey of its call
    cid,          \* per caller: number of its call (names the cert it mints)
    made,         \* per caller: certificate produced by f, before it is cached
    cret,         \* per caller: what Get returned
    cage,         \* per caller: age of the entry a hit returned, at the hit
    waited        \* per caller: entry inserted for its key while it was blocked

cacheVars == <<certs, lastCleanup, mutex, now, ticks, calls, cpc, ckey, cid,
               made, cret, cage, waited>>

\* Request dispatch and CONNECT handling: proxy/proxy.go, proxy/connect.go
VARIABLES
    requestID,    \* Proxy.requestID
    events,       \* every Event made by newEvent, in order of creation
    sess          \* per inbound connection: the state of its handler

proxyVars == <<requestID, events, sess>>

\* Round-trip pipeline: proxy/proxy.go, proxy/event.go
VARIABLES
    roundTripPipeline, \* Proxy.roundTripPipeline: nil or a chain of closures
    registered,   \* number of hooks handed to Register so far
    rpc,          \* position of the request inside ForwardThroughPipeline
    fwd,          \* Event.ForwardRequest of the request's Event
    stack,        \* the hook invocations that are active, outermost first
    trace,        \* hooks entered and left and upstream round trips, in order
    reqLayers,    \* the pipeline the request was handed to
    onceEach,     \* every hook invocation so far made exactly one forward call
    result,       \* what ForwardThroughPipeline returned
    resetAt,      \* the value of registered at the last ResetPipeline
    reqFloor,     \* the value of resetAt when the request was handed over
    abortedAt     \* the length of trace when event.Abort was called, or -1

pipeVars == <<roundTripPipeline, registered, rpc, fwd, stack, trace,
              reqLayers, onceEach, result, resetAt, reqFloor, abortedAt>>

\* Response relay: proxy/proxy.go ServeProxyRequest
VARIABLES
    rlpc,         \* position inside ServeProxyRequest
    up,           \* the response ForwardThroughPipeline returned
    rw,           \* event.ResponseWriter: what the client is sent
    rlog          \* the failures ServeProxyRequest has logged

relayVars == <<rlpc, up, rw, rlog>>

\* Event: proxy/event.go
VARIABLES
    epc,          \* life of the Event: none, live, sent
    req,          \* Event.Req
    force,        \* Event.ForceHost, Event.ForceScheme
    current,      \* the body bytes last given to the Event, and by what
    got,          \* result of the last RawRequest or RawRequestBody
    sentBody,     \* what the upstream client read from Event.Req.Body
    prepared      \* prepareRequest has run on the Event

eventVars == <<epc, req, force, current, got, sentBody, prepared>>

\* prepareRequest: proxy/event.go
VARIABLES
    pin,          \* the Event prepareRequest is called on
    pout,         \* the request prepareRequest returned
    pws           \* the URL HandleUpgradeRequest dials for the same Event

prepVars == <<pin, pout, pws>>

\* CertificateAuthority.NewCertificate: certauth
VARIABLES
    capc,         \* position in NewCertificate: idle, signing, done
    nameList,     \* the names argument
    template,     \* the certificate template
    leaf          \* the returned certificate, or the error

caVars == <<capc, nameList, template, leaf>>

\* concurrent callers of Proxy.nextRequestID: proxy/proxy.go
VARIABLES
    idpc,         \* per goroutine: idle, called (before the add), added
    idgot,        \* per goroutine: the id its call got
    idseen,       \* per goroutine: the greatest id returned before its call
    issued,       \* the ids returned by atomic.AddUint64, in order
    idret         \* the ids whose call has returned

idVars == <<idpc, idgot, idseen, issued, idret>>

\* WebSocket relay: proxy/upgrade.go
VARIABLES
    wsIn,         \* per connection: what the peer sent and was not yet read
    wsRead,       \* per connection: the messages ReadMessage returned
    wsOut,        \* per connection: the messages WriteMessage wrote
    wsOpen,       \* per connection: Close was not called on it
    wsBroken,     \* per connection: the network connection has failed
    wspc,         \* per copy task (named by its source): read, write,
                  \* closing, done
    wsMsg,        \* per copy task: the message read and not yet written
    wsErr,        \* per copy task: what copyWSMessages returned
    wsRet         \* what copyWSUntilError returned

wsVars == <<wsIn, wsRead, wsOut, wsOpen, wsBroken, wspc, wsMsg, wsErr, wsRet>>

\* certauth.Load: unnamed/part_000
VARIABLES
    ldpc,         \* idle, key (LoadPrivateKey is next), cert, done
    ldFiles,      \* the contents of the certificate file and of the key file
    ldRet         \* how Load ended: none, ca, an error, or panic

loadVars == <<ldpc, ldFiles, ldRet>>

\* Transaction store: store/key.go, store (unnamed/part_004)
VARIABLES
    db,           \* the keys of the badger database, as byte strings
    summaries,    \* what the last TxnSummaries returned, until the store
                  \* changes
    kpc,          \* key round trip: idle, bytes, parsed
    keyIn,        \* the Key being serialized
    keyBytes,     \* Key.Bytes() of it
    keyOut        \* ParseKey of those bytes

storeVars == <<db, summaries, kpc, keyIn, keyBytes, keyOut>>

\* Upstream probe: proxy/certificate_cache.go getCertificate
VARIABLES
    gpc,          \* idle, dial, handshake, close, done
    gin,          \* the arguments: target, serverName, clientConfig
    gcfg,         \* the tls.Config of the client handshake
    gconn,        \* the dialled connection: none, open, closed
    gsni,         \* the ServerName the client handshake was made with
    gchain,       \* the peer certificates of the handshake
    gret          \* what getCertificate returned

probeVars == <<gpc, gin, gcfg, gconn, gsni, gchain, gret>>


\* Request routing: proxy/proxy.go ServeProxyRequest, isWebsocketHandshake
VARIABLES
    dpc,          \* idle, serve, pipeline, upgrade, done
    dupg,         \* the values of the request's Upgrade header field
    dhooks,       \* the number of hooks in the pipeline
    dsteps        \* what has handled the request so far, in order

routeVars == <<dpc, dupg, dhooks, dsteps>>

vars == <<cacheVars, proxyVars, pipeVars, relayVars, eventVars, prepVars,
          caVars, idVars, wsVars,
    loadVars,
    storeVars,
    probeVars,
    routeVars>>

notCache == <<proxyVars, pipeVars, relayVars, eventVars, prepVars, caVars,
    idVars, wsVars,
    loadVars,
    storeVars,
    probeVars,
    routeVars>>
notProxy == <<cacheVars, pipeVars, relayVars, eventVars, prepVars, caVars,
    idVars, wsVars,
    loadVars,
    storeVars,
    probeVars,
    routeVars>>
notPipe == <<cacheVars, proxyVars, relayVars, eventVars, prepVars, caVars,
    idVars, wsVars,
    loadVars,
    storeVars,
    probeVars,
    routeVars>>
notEvent == <<cacheVars, proxyVars, pipeVars, relayVars, prepVars, caVars,
    idVars, wsVars,
    loadVars,
    storeVars,
    probeVars,
    routeVars>>
notPrep == <<cacheVars, proxyVars, pipeVars, relayVars, eventVars, caVars,
    idVars, wsVars,
    loadVars,
    storeVars,
    probeVars,
    routeVars>>
notCA == <<cacheVars, proxyVars, pipeVars, relayVars, eventVars, prepVars,
    idVars, wsVars,
    loadVars,
    storeVars,
    probeVars,
    routeVars>>
notIDs == <<cacheVars, events, sess, pipeVars, relayVars, eventVars, prepVars,
    caVars, wsVars,
    loadVars,
    storeVars,
    probeVars,
    routeVars>>
notWS == <<cacheVars, proxyVars, pipeVars, relayVars, eventVars, prepVars,
    caVars, idVars,
    loadVars,
    storeVars,
    probeVars,
    routeVars>>
notLoad == <<cacheVars, proxyVars, pipeVars, relayVars, eventVars, prepVars, caVars, idVars, wsVars,
    storeVars,
    probeVars,
    routeVars>>
notStore == <<cacheVars, proxyVars, pipeVars, relayVars, eventVars, prepVars, caVars, idVars, wsVars, loadVars,
    probeVars,
    routeVars>>
notProbe == <<cacheVars, proxyVars, pipeVars, relayVars, eventVars, prepVars, caVars, idVars, wsVars, loadVars, storeVars,
    routeVars>>
notRoute == <<cacheVars, proxyVars, pipeVars, relayVars, eventVars, prepVars, caVars, idVars, wsVars, loadVars, storeVars, probeVars>>
notRelay == <<cacheVars, proxyVars, eventVars, prepVars, caVars, idVars, wsVars,
              registered, rpc, fwd, stack, trace, reqLayers, onceEach, result,
              resetAt, reqFloor, abortedAt,
    loadVars,
    storeVars,
    probeVars,
    routeVars>>

\* seconds; certificate_cache.go:42-43
cleanupInterval == 30
cacheDuration == 600
\* the zero time.Time that NewCache leaves in lastCleanup
ZeroTime == 0
\* wall clock when the proxy starts: far later than the zero time
StartTime == ZeroTime + 2 * cacheDuration

\* the goroutines (TLS handshakes) that call Cache.Get concurrently
Callers == {"g1", "g2"}
NoCaller == "none"
NoEntry == [present |-> FALSE]
NoAge == -1
NoCert == [kind |-> "none"]
ErrCert == [kind |-> "error"]

\* addresses and server names the CONNECT handler passes to Get
Addrs == {"a.test:443"}
ServerNames == {"", "sni.test"}
CacheKeys == [Addr : Addrs, ServerName : ServerNames]

HostOfKeepsPort(addr) == addr

\* strings.Split(addr, ":")[0]
HostOf(addr) == CASE addr = "a.test:443" -> "a.test"
                  [] addr = "b.test:8443" -> "b.test"
                  [] OTHER -> addr

\* clock advances: half a cache lifetime, and more than a whole one
TickSteps == {cacheDuration \div 2, cacheDuration + 1}

\* time.Since(t)
Since(t) == now - t

Entry(c, t) == [present |-> TRUE, C |-> c, T |-> t]

cleanupKeepsAll(m) == m

\* Cache.cleanup: drop every entry older than cacheDuration
cleanup(m) ==
    [k \in CacheKeys |->
        IF m[k].present /\ Since(m[k].T) > cacheDuration THEN NoEntry ELSE m[k]]

\* the map after the cleanup that getOrCreate runs first
AfterCleanup ==
    IF Since(lastCleanup) > cleanupInterval THEN cleanup(certs) ELSE certs

CacheInit ==
    /\ certs = [k \in CacheKeys |-> NoEntry]
    /\ lastCleanup = ZeroTime
    /\ mutex = NoCaller
    /\ now = StartTime
    /\ ticks = 0
    /\ calls = 0
    /\ cpc = [p \in Callers |-> "idle"]
    /\ ckey = [p \in Callers |-> CHOOSE k \in CacheKeys : TRUE]
    /\ cid = [p \in Callers |-> 0]
    /\ made = [p \in Callers |-> NoCert]
    /\ cret = [p \in Callers |-> NoCert]
    /\ cage = [p \in Callers |-> NoAge]
    /\ waited = [p \in Callers |-> NoEntry]

\* time passes
Tick ==
    /\ ticks < MaxTicks
    /\ \E d \in TickSteps : now' = now + d
    /\ ticks' = ticks + 1
    /\ UNCHANGED <<certs, lastCleanup, mutex, calls, cpc, ckey, cid, made,
                   cret, cage, waited>>
    /\ UNCHANGED notCache

\* Cache.Get is called: log, compute name, enter getOrCreate
Get(p) ==
    /\ cpc[p] = "idle"
    /\ calls < MaxCalls
    /\ \E k \in CacheKeys : ckey' = [ckey EXCEPT ![p] = k]
    /\ calls' = calls + 1
    /\ cid' = [cid EXCEPT ![p] = calls + 1]
    /\ cpc' = [cpc EXCEPT ![p] = "lock"]
    /\ UNCHANGED <<certs, lastCleanup, mutex, now, ticks, made, cret, cage,
                   waited>>
    /\ UNCHANGED notCache

LockFreeNoMutex(p) == TRUE

\* c.m.Lock() blocks until no caller holds the mutex
LockFree(p) == mutex = NoCaller

Lock(p) ==
    /\ cpc[p] = "lock"
    /\ LockFree(p)
    /\ mutex' = p
    /\ cpc' = [cpc EXCEPT ![p] = "lookup"]
    /\ UNCHANGED <<certs, lastCleanup, now, ticks, calls, ckey, cid, made,
                   cret, cage, waited>>
    /\ UNCHANGED notCache

UnlockSkipped(p) == mutex

\* defer c.m.Unlock(), run when getOrCreate returns
Unlock(p) == IF mutex = p THEN NoCaller ELSE mutex

LookupRefreshes(p) ==
    /\ cpc[p] = "lookup"
    /\ IF AfterCleanup[ckey[p]].present
       THEN /\ certs' = [AfterCleanup EXCEPT ![ckey[p]].T = now]
            /\ cret' = [cret EXCEPT ![p] = AfterCleanup[ckey[p]].C]
            /\ cage' = [cage EXCEPT ![p] = Since(AfterCleanup[ckey[p]].T)]
            /\ cpc' = [cpc EXCEPT ![p] = "done"]
            /\ mutex' = IF mutex = p THEN NoCaller ELSE mutex
       ELSE /\ certs' = AfterCleanup
            /\ cpc' = [cpc EXCEPT ![p] = "probe"]
            /\ UNCHANGED <<cret, cage, mutex>>
    /\ UNCHANGED <<lastCleanup, now, ticks, calls, ckey, cid, made, waited>>
    /\ UNCHANGED notCache

\* getOrCreate up to the call of f: cleanup when due, then the map lookup;
\* a hit returns the entry's certificate and (deferred) unlocks
Lookup(p) ==
    /\ cpc[p] = "lookup"
    /\ certs' = AfterCleanup
    /\ IF AfterCleanup[ckey[p]].present
       THEN /\ cret' = [cret EXCEPT ![p] = AfterCleanup[ckey[p]].C]
            /\ cage' = [cage EXCEPT ![p] = Since(AfterCleanup[ckey[p]].T)]
            /\ cpc' = [cpc EXCEPT ![p] = "done"]
            /\ mutex' = Unlock(p)
       ELSE /\ cpc' = [cpc EXCEPT ![p] = "probe"]
            /\ UNCHANGED <<cret, cage, mutex>>
    /\ UNCHANGED <<lastCleanup, now, ticks, calls, ckey, cid, made, waited>>
    /\ UNCHANGED notCache

\* f, first half: getCertificate(ctx, addr, serverName, clientConfig)
Probe(p) ==
    /\ cpc[p] = "probe"
    /\ \E ok \in BOOLEAN :
         cpc' = [cpc EXCEPT ![p] = IF ok THEN "clone" ELSE "mint"]
    /\ UNCHANGED <<certs, lastCleanup, mutex, now, ticks, calls, ckey, cid,
                   made, cret, cage, waited>>
    /\ UNCHANGED notCache

\* f: c.ca.Clone(cert); a failure is logged and falls through to NewCertificate
Clone(p) ==
    /\ cpc[p] = "clone"
    /\ \E ok \in BOOLEAN :
         IF ok
         THEN /\ made' = [made EXCEPT ![p] =
                     [kind |-> "clone", serial |-> cid[p], cn |-> "upstream",
                      names |-> <<"upstream">>]]
              /\ cpc' = [cpc EXCEPT ![p] = "store"]
         ELSE /\ cpc' = [cpc EXCEPT ![p] = "mint"]
              /\ UNCHANGED made
    /\ UNCHANGED <<certs, lastCleanup, mutex, now, ticks, calls, ckey, cid,
                   cret, cage, waited>>
    /\ UNCHANGED notCache

MintCachesFailure(p) ==
    /\ cpc[p] = "mint"
    /\ \E ok \in BOOLEAN :
         IF ok
         THEN /\ made' = [made EXCEPT ![p] =
                     [kind |-> "mint", serial |-> cid[p], cn |-> "a.test",
                      names |-> <<"a.test">>]]
              /\ cpc' = [cpc EXCEPT ![p] = "store"]
              /\ UNCHANGED <<cret, mutex, certs>>
         ELSE /\ cret' = [cret EXCEPT ![p] = ErrCert]
              /\ cpc' = [cpc EXCEPT ![p] = "done"]
              /\ mutex' = IF mutex = p THEN NoCaller ELSE mutex
              /\ certs' = [certs EXCEPT ![ckey[p]] = Entry(ErrCert, now)]
              /\ UNCHANGED made
    /\ UNCHANGED <<lastCleanup, now, ticks, calls, ckey, cid, cage, waited>>
    /\ UNCHANGED notCache

\* f: c.ca.NewCertificate(name, []string{name}); its error is the error of
\* getOrCreate and of Get, returned with the mutex released
Mint(p) ==
    /\ cpc[p] = "mint"
    /\ \E ok \in BOOLEAN :
         IF ok
         THEN /\ made' = [made EXCEPT ![p] =
                     [kind |-> "mint", serial |-> cid[p],
                      cn |-> HostOf(ckey[p].Addr),
                      names |-> <<HostOf(ckey[p].Addr)>>]]
              /\ cpc' = [cpc EXCEPT ![p] = "store"]
              /\ UNCHANGED <<cret, mutex>>
         ELSE /\ cret' = [cret EXCEPT ![p] = ErrCert]
              /\ cpc' = [cpc EXCEPT ![p] = "done"]
              /\ mutex' = Unlock(p)
              /\ UNCHANGED made
    /\ UNCHANGED <<certs, lastCleanup, now, ticks, calls, ckey, cid, cage,
                   waited>>
    /\ UNCHANGED notCache

\* getOrCreate after f: cache the certificate with T = time.Now(), return it
Store(p) ==
    /\ cpc[p] = "store"
    /\ certs' = [certs EXCEPT ![ckey[p]] = Entry(made[p], now)]
    /\ cret' = [cret EXCEPT ![p] = made[p]]
    /\ cpc' = [cpc EXCEPT ![p] = "done"]
    /\ mutex' = Unlock(p)
    /\ waited' = [q \in Callers |->
                    IF q # p /\ cpc[q] = "lock" /\ ckey[q] = ckey[p]
                    THEN Entry(made[p], now) ELSE waited[q]]
    /\ UNCHANGED <<lastCleanup, now, ticks, calls, ckey, cid, made, cage>>
    /\ UNCHANGED notCache

\* the caller of Get goes on with the result
Return(p) ==
    /\ cpc[p] = "done"
    /\ cpc' = [cpc EXCEPT ![p] = "idle"]
    /\ made' = [made EXCEPT ![p] = NoCert]
    /\ cret' = [cret EXCEPT ![p] = NoCert]
    /\ cage' = [cage EXCEPT ![p] = NoAge]
    /\ waited' = [waited EXCEPT ![p] = NoEntry]
    /\ UNCHANGED <<certs, lastCleanup, mutex, now, ticks, calls, ckey, cid>>
    /\ UNCHANGED notCache

CacheNext ==
    \/ Tick
    \/ \E p \in Callers : Get(p)
    \/ \E p \in Callers : Lock(p)
    \/ \E p \in Callers : Lookup(p)
    \/ \E p \in Callers : Probe(p)
    \/ \E p \in Callers : Clone(p)
    \/ \E p \in Callers : Mint(p)
    \/ \E p \in Callers : Store(p)
    \/ \E p \in Callers : Return(p)

\* the steps of the mint: f (probe, clone or mint) and the insertion
MintSteps == {"probe", "clone", "mint", "store"}

\* at most one caller is inside the locked part of getOrCreate
MintExclusive ==
    \A p, q \in Callers :
        (cpc[p] \in MintSteps \cup {"lookup"} /\ cpc[q] \in MintSteps \cup {"lookup"})
            => p = q

\* caller p leaves the lookup with a hit on the entry inserted while it waited
HitsWaited(p) == cpc'[p] = "done" /\ cret'[p] = waited[p].C

\* C1 as stated: concurrent Get calls for one missing key mint one at a time,
\* and a caller that was blocked while another caller inserted the entry for
\* its key never mints itself: it returns the inserted certificate.
C1_Original ==
    /\ []MintExclusive
    /\ [][\A p \in Callers :
             (cpc[p] = "lookup" /\ cpc'[p] # "lookup" /\ waited[p].present)
                 => HitsWaited(p)]_vars

\* C1 amended: the mint step runs in at most one caller at a time, and a caller
\* that was blocked while another caller inserted the entry for its key returns
\* that certificate without minting, provided it reaches the lookup no later
\* than cacheDuration after the insertion (later the entry is evicted and the
\* caller mints again).
C1_CoalescedMint ==
    /\ []MintExclusive
    /\ [][\A p \in Callers :
             (/\ cpc[p] = "lookup" /\ cpc'[p] # "lookup"
              /\ waited[p].present
              /\ Since(waited[p].T) <= cacheDuration)
                 => HitsWaited(p)]_vars

\* a blocked caller has returned the certificate the first caller inserted
C1_Witness ==
    \E p \in Callers :
        /\ cpc[p] = "done" /\ waited[p].present
        /\ cret[p] = waited[p].C /\ cret[p].serial # cid[p]

\* C7: a certificate that Get returns from an existing entry was inserted at
\* most cacheDuration before the call.
C7_HitIsFresh ==
    \A p \in Callers : cage[p] # NoAge => cage[p] <= cacheDuration

\* a hit on an entry that is exactly cacheDuration old
C7_Witness ==
    \E p \in Callers : cpc[p] = "done" /\ cage[p] = cacheDuration

\* an entry of the map before a step is the same after it, or it had expired
\* and is gone
KeptOrEvicted(k) ==
    \/ certs'[k] = certs[k]
    \/ /\ certs[k].present /\ Since(certs[k].T) > cacheDuration
       /\ certs'[k] = NoEntry

\* C31: a Get that hits an entry leaves the cache as it is: the entry keeps
\* its certificate and its insertion time, and no entry is added or changed,
\* expired entries being evicted.
C31_HitChangesNothing ==
    [][\A p \in Callers :
          (cpc[p] = "lookup" /\ cpc'[p] = "done") =>
              /\ certs[ckey[p]].present
              /\ certs'[ckey[p]] = certs[ckey[p]]
              /\ cret'[p] = certs[ckey[p]].C
              /\ \A k \in CacheKeys : KeptOrEvicted(k)]_vars

\* a hit on an entry half a cache lifetime old, which still has its insertion
\* time, next to an entry for another key
C31_Witness ==
    \E p \in Callers :
        /\ cpc[p] = "done" /\ cage[p] = cacheDuration \div 2
        /\ certs[ckey[p]] = Entry(cret[p], now - cage[p])
        /\ \E k \in CacheKeys : k # ckey[p] /\ certs[k].present

\* the part of Get that runs with the mutex held
Locked == {"lookup", "probe", "clone", "mint", "store"}

\* C32: the entries are read and written with the cache mutex held, every
\* return path of Get (hit, mint, failed mint) releases the mutex, and at most
\* one probe or mint is in progress at a time, also for different keys.
C32_SingleLock ==
    \A p \in Callers :
        /\ cpc[p] \in Locked => mutex = p
        /\ cpc[p] \notin Locked => mutex # p
        /\ \A q \in Callers :
              (cpc[p] \in Locked /\ cpc[q] \in Locked) => p = q

\* one caller has returned from a failed mint; another, with a different
\* key, holds the mutex and mints
C32_Witness ==
    \E p, q \in Callers :
        /\ cpc[p] = "done" /\ cret[p] = ErrCert
        /\ cpc[q] = "mint" /\ ckey[q] # ckey[p]
        /\ mutex = q

\* C40: when the mint fails, Get returns the error, inserts no entry and
\* leaves the other entries alone, and releases the lock; nothing remembers
\* the failure, so a later Get that misses the key probes and mints again.
C40_FailedMintLeavesCache ==
    [][\A p \in Callers :
          /\ (cpc[p] = "mint" /\ cpc'[p] = "done") =>
                 /\ cret'[p] = ErrCert
                 /\ certs' = certs /\ ~certs[ckey[p]].present
                 /\ mutex' = NoCaller
          /\ (cpc[p] = "lookup" /\ cpc'[p] # "lookup"
                 /\ ~certs[ckey[p]].present) =>
                 cpc'[p] = "probe" /\ cret'[p] = NoCert]_vars

\* after a failed mint for a key a later Get for the same key is minting
C40_Witness ==
    \E p, q \in Callers :
        /\ cpc[p] = "done" /\ cret[p] = ErrCert
        /\ ckey[q] = ckey[p] /\ cid[q] > cid[p]
        /\ cpc[q] = "mint" /\ ~certs[ckey[p]].present

C25_CleanupStamped ==
    [][\A p \in Callers :
          (/\ cpc[p] = "lookup" /\ cpc'[p] # "lookup"
           /\ Since(lastCleanup) > cleanupInterval)
              => lastCleanup' = now]_vars

(***************************************************************************)
(* Request dispatch and CONNECT handling: proxy/proxy.go, proxy/connect.go *)
(***************************************************************************)
\* the inbound connections the proxy's server has accepted
Sessions == {"c1", "c2"}

\* first byte of a TLS record carrying a client hello; connect.go:131
TLSHello == 22
NoByte == -1
\* first bytes a client may send on the tunnel: a TLS alert record (0x15), a
\* TLS handshake record (0x16), "G" of GET (0x47)
FirstBytes == {TLSHello - 1, TLSHello, 71}

\* the requests a client sends to the proxy: method, URL host, URL path; a
\* CONNECT names an authority and has no path
Requests ==
    [method : {"CONNECT"}, host : {"proxy", "a.test:443"}, path : {""}]
    \cup [method : {"GET"}, host : {"proxy", "proxy:8080", "a.test:443"},
          path : {"/ca", "/x"}]
NoReq == [method |-> "", host |-> "", path |-> ""]

\* url.URL.Hostname(): the host without its port
Hostname(host) == CASE host = "a.test:443" -> "a.test"
                    [] host = "proxy:8080" -> "proxy"
                    [] OTHER -> host

RouteByHost(r) ==
    IF Hostname(r.host) = "proxy" THEN "static"
    ELSE IF r.method = "CONNECT" THEN "hijack"
    ELSE "forward"

\* Proxy.ServeHTTP's dispatch: ServeConnect for the method CONNECT, else
\* ServeStatic for the hostname proxy, else ServeProxyRequest
Route(r) ==
    IF r.method = "CONNECT" THEN "hijack"
    ELSE IF Hostname(r.host) = "proxy" THEN "static"
    ELSE "forward"

\* ServeStatic: the CA certificate for the path /ca, http.Error 404 otherwise
ServeStatic(r) ==
    IF r.path = "/ca" THEN [status |-> 200, body |-> "CA certificate PEM"]
    ELSE [status |-> 404, body |-> "not found"]

IdleSession ==
    [pc |-> "idle", ev |-> 0, connOpen |-> TRUE, hijacked |-> FALSE,
     firstByte |-> NoByte, tls |-> FALSE, parentID |-> 0, forceHost |-> "",
     forceScheme |-> "", ch |-> <<>>, chClosed |-> FALSE, accepts |-> 0,
     tunnel |-> "none", status |-> 0, errLogged |-> FALSE, alpn |-> "",
     target |-> "", req |-> NoReq, body |-> ""]

ProxyInit ==
    /\ requestID = 0
    /\ events = <<>>
    /\ sess = [s \in Sessions |-> IdleSession]

NextIDStale == IF requestID = 0 THEN 1 ELSE requestID

\* Proxy.nextRequestID: atomic.AddUint64(&p.requestID, 1)
NextID == requestID + 1

\* newEvent: ForceHost and ForceScheme are empty until a tunnel handler sets them
NewEvent(id, kind, s, parent, host, scheme) ==
    [ID |-> id, kind |-> kind, sess |-> s, parent |-> parent,
     ForceHost |-> host, ForceScheme |-> scheme]

\* Proxy.ServeHTTP: a new Event with a fresh id, then the dispatch on the
\* method and on the URL's hostname; ServeStatic answers at once
ServeHTTP(s) ==
    /\ sess[s].pc = "idle"
    /\ Len(events) < MaxEvents
    /\ \E r \in Requests :
        /\ requestID' = NextID
        /\ events' = Append(events, NewEvent(NextID, "top", s, 0, "", ""))
        /\ sess' = [sess EXCEPT ![s] =
              IF Route(r) = "hijack"
              THEN [IdleSession EXCEPT !.pc = "hijack", !.ev = Len(events) + 1,
                                       !.req = r, !.target = r.host]
              ELSE IF Route(r) = "static"
              THEN [IdleSession EXCEPT !.pc = "static", !.ev = Len(events) + 1,
                                       !.req = r,
                                       !.status = ServeStatic(r).status,
                                       !.body = ServeStatic(r).body]
              ELSE [IdleSession EXCEPT !.pc = "forward", !.ev = Len(events) + 1,
                                       !.req = r]]
    /\ UNCHANGED notProxy

\* the handler of a request that is not a CONNECT returns; the connection is
\* kept for the client's next request
Handled(s) ==
    /\ sess[s].pc \in {"static", "forward", "failed"}
    /\ sess' = [sess EXCEPT ![s].pc = "idle", ![s].req = NoReq]
    /\ UNCHANGED <<requestID, events>>
    /\ UNCHANGED notProxy

\* ServeConnect: hj.Hijack(); on failure SendError answers 500
Hijack(s) ==
    /\ sess[s].pc = "hijack"
    /\ \E ok \in BOOLEAN :
         sess' = [sess EXCEPT ![s] =
              IF ok THEN [@ EXCEPT !.pc = "flush", !.hijacked = TRUE]
              ELSE [@ EXCEPT !.pc = "failed", !.status = 500]]
    /\ UNCHANGED <<requestID, events>>
    /\ UNCHANGED notProxy

\* ServeConnect: rw.Flush() and writeConnectSuccess(conn); on failure of either
\* writeConnectError, conn.Close() and return
Establish(s) ==
    /\ sess[s].pc \in {"flush", "write200"}
    /\ \E ok \in BOOLEAN :
         sess' = [sess EXCEPT ![s] =
              IF ok
              THEN [@ EXCEPT !.pc = IF @ = "flush" THEN "write200" ELSE "peek"]
              ELSE [@ EXCEPT !.pc = "returned", !.connOpen = FALSE]]
    /\ UNCHANGED <<requestID, events>>
    /\ UNCHANGED notProxy

IsClientHelloAny(b) == b >= TLSHello

\* buf[0] == 0x16
IsClientHello(b) == b = TLSHello

ForceHostOfEvent(e, target) == e.ForceHost

\* forceHost: event.Req.URL.Host, or event.ForceHost when that is set
ForceHostOf(e, target) == IF e.ForceHost # "" THEN e.ForceHost ELSE target

\* ServeConnect: bconn.Peek(1); on failure conn.Close() and return. Then the
\* listener, forceHost, parentID and the branch on the first byte: a cleartext
\* stream is handed to the listener at once, with forceScheme http
Peek(s) ==
    /\ sess[s].pc = "peek"
    /\ \/ sess' = [sess EXCEPT ![s].pc = "returned", ![s].connOpen = FALSE]
       \/ \E b \in FirstBytes :
            sess' = [sess EXCEPT ![s] =
              IF IsClientHello(b)
              THEN [@ EXCEPT !.pc = "handshake", !.firstByte = b,
                             !.forceHost =
                                 ForceHostOf(events[sess[s].ev], sess[s].target),
                             !.parentID = events[sess[s].ev].ID]
              ELSE [@ EXCEPT !.pc = "serve", !.firstByte = b,
                             !.forceHost =
                                 ForceHostOf(events[sess[s].ev], sess[s].target),
                             !.parentID = events[sess[s].ev].ID,
                             !.ch = <<"bconn">>, !.chClosed = TRUE,
                             !.forceScheme = "http"]]
    /\ UNCHANGED <<requestID, events>>
    /\ UNCHANGED notProxy

ParentIDKept(proto, id) == id

\* use new request IDs for HTTP2: parentID = 0 when the negotiated protocol
\* is h2
ParentIDFor(proto, id) == IF proto = "h2" THEN 0 ELSE id

\* ServeConnect: tls.Server(bconn, cfg).Handshake(); on failure log and return.
\* On success the TLS stream is handed to the listener, parentID is cleared
\* when ALPN chose h2, and forceScheme is https
Handshake(s) ==
    /\ sess[s].pc = "handshake"
    /\ \E proto \in {"failed", "h2", "http/1.1", ""} :
         sess' = [sess EXCEPT ![s] =
              IF proto = "failed"
              THEN [@ EXCEPT !.pc = "returned", !.tls = TRUE]
              ELSE [@ EXCEPT !.pc = "serve", !.tls = TRUE,
                             !.ch = <<"tlsConn">>, !.chClosed = TRUE,
                             !.alpn = proto,
                             !.parentID = ParentIDFor(proto, @),
                             !.forceScheme = "https"]]
    /\ UNCHANGED <<requestID, events>>
    /\ UNCHANGED notProxy

ServeErrorKept(err) == err

\* ServeConnect after srv.Serve: errFakeListenerEOF counts as no error
ServeError(err) == IF err = "errFakeListenerEOF" THEN "nil" ELSE err

\* srv.Serve(listener): fakeListener.Accept receives from the channel: it
\* hands out the buffered connection, which the server serves in a goroutine
\* of its own; on the closed, empty channel it returns errFakeListenerEOF,
\* Serve returns that error and ServeConnect logs it unless it is the sentinel
Accept(s) ==
    /\ sess[s].pc = "serve"
    /\ sess[s].ch # <<>> \/ sess[s].chClosed
    /\ sess' = [sess EXCEPT ![s] =
          IF @.ch # <<>>
          THEN [@ EXCEPT !.ch = Tail(@), !.accepts = @ + 1, !.tunnel = Head(sess[s].ch)]
          ELSE [@ EXCEPT !.pc = "returned", !.accepts = @ + 1,
                         !.errLogged = ServeError("errFakeListenerEOF") # "nil"]]
    /\ UNCHANGED <<requestID, events>>
    /\ UNCHANGED notProxy

\* the nested server's handler: a request read from the tunnel gets an Event
\* with the parent's id, or with a fresh one when parentID is 0
SubRequest(s) ==
    /\ sess[s].tunnel \in {"bconn", "tlsConn"}
    /\ Len(events) < MaxEvents
    /\ LET fresh == sess[s].parentID = 0
           nextID == IF fresh THEN NextID ELSE sess[s].parentID
       IN /\ requestID' = IF fresh THEN NextID ELSE requestID
          /\ events' = Append(events,
                 NewEvent(nextID, "sub", s, sess[s].parentID,
                          sess[s].forceHost, sess[s].forceScheme))
    /\ UNCHANGED sess
    /\ UNCHANGED notProxy

\* the client (or the nested server) closes the tunnelled connection
TunnelClose(s) ==
    /\ sess[s].tunnel \in {"bconn", "tlsConn"}
    /\ sess' = [sess EXCEPT ![s].tunnel = "closed", ![s].connOpen = FALSE]
    /\ UNCHANGED <<requestID, events>>
    /\ UNCHANGED notProxy

ProxyNext ==
    \/ \E s \in Sessions : ServeHTTP(s)
    \/ \E s \in Sessions : Handled(s)
    \/ \E s \in Sessions : Hijack(s)
    \/ \E s \in Sessions : Establish(s)
    \/ \E s \in Sessions : Peek(s)
    \/ \E s \in Sessions : Handshake(s)
    \/ \E s \in Sessions : Accept(s)
    \/ \E s \in Sessions : SubRequest(s)
    \/ \E s \in Sessions : TunnelClose(s)

\* an Event whose id was drawn from the counter when it was created
FreshID(e) == e.kind = "top" \/ e.parent = 0

\* C2 as stated: every Event (top-level, CONNECT, or demultiplexed inside a
\* tunnel) has an id that differs from the id of every other Event.
C2_Original ==
    \A i, j \in 1..Len(events) : i # j => events[i].ID # events[j].ID

\* C2 amended: the Events of top-level requests (CONNECT included) and of the
\* requests inside an h2 tunnel have pairwise different ids; an Event made
\* inside a cleartext or non-h2 TLS tunnel carries the id of the tunnel's
\* CONNECT Event, and differs from every Event outside that tunnel.
C2_FreshIdsUnique ==
    \A i, j \in 1..Len(events) :
        /\ (i # j /\ FreshID(events[i]) /\ FreshID(events[j]))
               => events[i].ID # events[j].ID
        /\ ~FreshID(events[i])
               => /\ events[i].ID = events[sess[events[i].sess].ev].ID
                  /\ (events[j].ID = events[i].ID
                         => events[j].sess = events[i].sess)

\* an h2 tunnel and a non-h2 tunnel have both made Events, next to the CONNECTs
C2_Witness ==
    /\ Len(events) = MaxEvents
    /\ \E i, j \in 1..Len(events) :
          /\ events[i].kind = "sub" /\ FreshID(events[i])
          /\ events[j].kind = "sub" /\ ~FreshID(events[j])

\* the Events made for the requests inside the tunnel of session s
SubEvents(s) ==
    {i \in 1..Len(events) : events[i].kind = "sub" /\ events[i].sess = s}

\* C13: in a tunnel whose TLS handshake negotiated h2 every sub-request Event
\* has an id of its own, drawn from the counter: it differs from the id of the
\* CONNECT Event and of every other Event; in a cleartext tunnel and in a TLS
\* tunnel without h2 every sub-request Event has the id of the CONNECT Event.
C13_TunnelIds ==
    \A s \in Sessions : \A i \in SubEvents(s) :
        IF sess[s].tls /\ sess[s].alpn = "h2"
        THEN /\ events[i].ID # events[sess[s].ev].ID
             /\ events[i].ID <= requestID
             /\ \A j \in 1..Len(events) : j # i => events[j].ID # events[i].ID
        ELSE events[i].ID = events[sess[s].ev].ID

\* an h2 tunnel has made two Events while another CONNECT was handled
C13_Witness ==
    \E s, t \in Sessions :
        /\ sess[s].alpn = "h2" /\ Cardinality(SubEvents(s)) >= 2
        /\ t # s /\ sess[t].req.method = "CONNECT"
        /\ events[sess[t].ev].ID < events[sess[s].ev].ID

\* C15: every Event made for a request inside a CONNECT tunnel has ForceHost
\* equal to the host:port the CONNECT asked for, and ForceScheme https when
\* the tunnel was TLS-terminated and http when it was not.
C15_ForcePinned ==
    \A s \in Sessions : \A i \in SubEvents(s) :
        /\ events[i].ForceHost = sess[s].target
        /\ events[i].ForceHost # ""
        /\ events[i].ForceScheme = IF sess[s].tls THEN "https" ELSE "http"

\* a request on a TLS tunnel without h2 and a request on a cleartext tunnel
\* to another host
C15_Witness ==
    \E s, t \in Sessions :
        /\ sess[s].tls /\ sess[s].alpn = "http/1.1" /\ SubEvents(s) # {}
        /\ ~sess[t].tls /\ SubEvents(t) # {}
        /\ sess[s].target # sess[t].target

\* the positions of a session inside ServeConnect
InConnect == {"hijack", "flush", "write200", "peek", "handshake", "serve",
              "returned", "failed"}

\* C16: a top-level request is handled by one path: a CONNECT by the CONNECT
\* handler, whatever its host; any other request for the hostname proxy by
\* the built-in endpoint, which answers /ca with 200 and the CA certificate
\* and any other path with 404 and forwards nothing; every other request by
\* the request pipeline.
C16_Dispatch ==
    \A s \in Sessions :
        LET r == sess[s].req
        IN r # NoReq =>
             IF r.method = "CONNECT"
             THEN sess[s].pc \in InConnect /\ sess[s].target = r.host
             ELSE IF r.host \in {"proxy", "proxy:8080"}
             THEN /\ sess[s].pc = "static"
                  /\ r.path = "/ca" =>
                        sess[s].status = 200 /\ sess[s].body = "CA certificate PEM"
                  /\ r.path # "/ca" =>
                        sess[s].status = 404 /\ sess[s].body = "not found"
             ELSE sess[s].pc = "forward" /\ sess[s].status = 0 /\ sess[s].body = ""

\* a CONNECT to the host proxy is in its handler while the endpoint answers
\* a request for /ca on proxy:8080
C16_Witness ==
    \E s, t \in Sessions :
        /\ sess[s].req.method = "CONNECT" /\ sess[s].req.host = "proxy"
        /\ sess[s].tunnel = "bconn"
        /\ sess[t].req = [method |-> "GET", host |-> "proxy:8080", path |-> "/ca"]
        /\ sess[t].status = 200

\* the CONNECT handler has decided between TLS and cleartext
Decided(s) == sess[s].firstByte # NoByte /\ sess[s].pc # "handshake"

\* C4: after the peek, a server-side TLS handshake is performed if and only if
\* the first byte on the tunnel is 0x16; for every other first byte the stream
\* is served as cleartext HTTP, without a handshake.
C4_HandshakeIffClientHello ==
    \A s \in Sessions :
        /\ sess[s].tls => sess[s].firstByte = TLSHello
        /\ sess[s].pc = "handshake" => sess[s].firstByte = TLSHello
        /\ Decided(s) =>
              /\ sess[s].tls <=> sess[s].firstByte = TLSHello
              /\ sess[s].firstByte # TLSHello =>
                    /\ sess[s].forceScheme = "http"
                    /\ sess[s].tunnel # "tlsConn"
                    /\ "tlsConn" \notin {sess[s].ch[i] : i \in DOMAIN sess[s].ch}

\* one tunnel was TLS-terminated after 0x16, another serves cleartext after 0x15
C4_Witness ==
    \E s, t \in Sessions :
        /\ sess[s].firstByte = TLSHello /\ sess[s].tunnel = "tlsConn"
        /\ sess[t].firstByte = TLSHello - 1 /\ sess[t].tunnel = "bconn"

\* ServeConnect has returned for a connection it had hijacked, without
\* having handed a connection to a nested server
FailedConnect(s) ==
    /\ sess[s].pc = "returned" /\ sess[s].hijacked
    /\ sess[s].accepts = 0

\* C26: a CONNECT session that fails after the hijack (flush, the 200
\* response, the peek, the TLS handshake) ends with the hijacked client
\* connection closed; nothing is retried and no nested server is started.
C26_FailureCloses ==
    \A s \in Sessions :
        FailedConnect(s) =>
            /\ ~sess[s].connOpen
            /\ sess[s].tunnel = "none" /\ sess[s].ch = <<>>

\* C27: ServeConnect does not return before the tunnelled connection has been
\* closed: while that connection is served, the nested server's Serve call is
\* still running.
C27_ServeOutlivesTunnel ==
    \A s \in Sessions :
        sess[s].tunnel \in {"bconn", "tlsConn"} => sess[s].pc = "serve"

\* C28: the listener of a tunnel delivers one connection: the first Accept
\* returns the tunnelled connection, the next one finds the channel closed and
\* empty and returns the sentinel without blocking, and ServeConnect returns
\* without logging a serving error.
C28_OneShotListener ==
    \A s \in Sessions :
        /\ sess[s].accepts <= 2
        /\ Len(sess[s].ch) + (IF sess[s].tunnel = "none" THEN 0 ELSE 1) <= 1
        /\ sess[s].pc = "serve" => sess[s].ch # <<>> \/ sess[s].chClosed
        /\ sess[s].accepts >= 1 =>
              sess[s].tunnel # "none" /\ sess[s].ch = <<>>
        /\ sess[s].accepts = 1 => sess[s].pc = "serve"
        /\ sess[s].accepts = 2 => sess[s].pc = "returned" /\ ~sess[s].errLogged

\* the second Accept of a TLS tunnel's listener has returned the sentinel
\* while the tunnel is served, and a cleartext tunnel is past its first Accept
C28_Witness ==
    \E s, t \in Sessions :
        /\ sess[s].accepts = 2 /\ sess[s].tunnel = "tlsConn"
        /\ sess[s].pc = "returned"
        /\ sess[t].accepts = 1 /\ sess[t].tunnel = "bconn"

(***************************************************************************)
(* Round-trip pipeline: proxy/proxy.go Register, ForwardThroughPipeline    *)
(***************************************************************************)
\* A value of type EventHook is either nil, the default of newEvent, or a
\* chain of closures around p.ForwardRequest: layers lists the hooks the
\* chain wraps, innermost first; the empty chain is p.ForwardRequest itself.
NilHook == [kind |-> "nil", layers |-> <<>>]
NoForward == [kind |-> "noforward", layers |-> <<>>]
Chain(layers) == [kind |-> "chain", layers |-> layers]

NoResult == "none"

PipeInit ==
    /\ roundTripPipeline = NilHook
    /\ registered = 0
    /\ rpc = "idle"
    /\ fwd = NoForward
    /\ stack = <<>>
    /\ trace = <<>>
    /\ reqLayers = <<>>
    /\ onceEach = TRUE
    /\ result = NoResult
    /\ resetAt = 0
    /\ reqFloor = 0
    /\ abortedAt = -1

WrapInside(layers, f) == <<f>> \o layers

\* Register, one iteration: the new pipeline calls f, whose ForwardRequest
\* calls the pipeline as it was before
Wrap(layers, f) == Append(layers, f)

RECURSIVE WrapAll(_, _, _)
\* Register's loop over funcs: the hooks numbered from+1 .. from+k
WrapAll(layers, from, k) ==
    IF k = 0 THEN layers ELSE WrapAll(Wrap(layers, from + 1), from + 1, k - 1)

\* Proxy.Register(funcs...)
Register ==
    /\ \E k \in 1..2 :
        /\ registered + k <= MaxHooks
        /\ registered' = registered + k
        /\ roundTripPipeline' =
              Chain(WrapAll(roundTripPipeline.layers, registered, k))
    /\ UNCHANGED <<rpc, fwd, stack, trace, reqLayers, onceEach, result,
                   resetAt, reqFloor, abortedAt>>
    /\ UNCHANGED notPipe

ResetPipelineKeeps ==
    /\ resetAt' = registered
    /\ UNCHANGED <<roundTripPipeline, registered, rpc, fwd, stack, trace,
                   reqLayers, onceEach, result, reqFloor,
                   abortedAt>>
    /\ UNCHANGED notPipe

\* Proxy.ResetPipeline
ResetPipeline ==
    /\ roundTripPipeline' = Chain(<<>>)
    /\ resetAt' = registered
    /\ UNCHANGED <<registered, rpc, fwd, stack, trace, reqLayers, onceEach,
                   result, reqFloor,
                   abortedAt>>
    /\ UNCHANGED notPipe

InvokeAlwaysForwards(h, stk, ok) ==
    IF h.layers = <<>>
    THEN [stack |-> stk, fwd |-> fwd,
          trace |-> Append(trace, <<"upstream", 0>>),
          ret |-> IF ok THEN "response" ELSE "error"]
    ELSE LET f == h.layers[Len(h.layers)]
         IN [stack |-> Append(stk, [hook |-> f, calls |-> 0, got |-> NoResult]),
             fwd |-> Chain(SubSeq(h.layers, 1, Len(h.layers) - 1)),
             trace |-> Append(trace, <<"enter", f>>),
             ret |-> NoResult]

\* Calling the EventHook h with the Event, below the invocations in stk: a
\* wrapper sets Event.ForwardRequest to the pipeline it wraps and enters its
\* hook; p.ForwardRequest does the upstream round trip and returns at once,
\* as does the default ForwardRequest of newEvent with its error
Invoke(h, stk, ok) ==
    IF h.kind = "noforward"
    THEN [stack |-> stk, fwd |-> fwd, trace |-> trace,
          ret |-> "no forward action defined"]
    ELSE IF h.layers = <<>>
    THEN [stack |-> stk, fwd |-> fwd,
          trace |-> Append(trace, <<"upstream", 0>>),
          ret |-> IF ok THEN "response" ELSE "error"]
    ELSE LET f == h.layers[Len(h.layers)]
         IN [stack |-> Append(stk, [hook |-> f, calls |-> 0, got |-> NoResult]),
             fwd |-> Chain(SubSeq(h.layers, 1, Len(h.layers) - 1)),
             trace |-> Append(trace, <<"enter", f>>),
             ret |-> NoResult]

\* a call returned r to the invocations in stk: to the innermost hook, or to
\* ForwardThroughPipeline when no hook is active
Deliver(stk, r) ==
    IF r = NoResult THEN [stack |-> stk, rpc |-> "running", result |-> result]
    ELSE IF stk = <<>> THEN [stack |-> stk, rpc |-> "done", result |-> r]
    ELSE [stack |-> [stk EXCEPT ![Len(stk)].got = r], rpc |-> "running",
          result |-> result]

\* ForwardThroughPipeline, first statement: a nil pipeline is replaced by
\* p.ForwardRequest
StartRequest ==
    /\ rpc = "idle"
    /\ rpc' = "call"
    /\ roundTripPipeline' =
          IF roundTripPipeline.kind = "nil" THEN Chain(<<>>) ELSE roundTripPipeline
    /\ fwd' = NoForward
    /\ trace' = <<>>
    /\ reqLayers' = <<>>
    /\ onceEach' = TRUE
    /\ result' = NoResult
    /\ abortedAt' = -1
    /\ UNCHANGED <<registered, stack, resetAt, reqFloor>>
    /\ UNCHANGED notPipe

\* ForwardThroughPipeline: p.roundTripPipeline(event)
CallPipeline ==
    /\ rpc = "call"
    /\ \E ok \in BOOLEAN :
         LET i == Invoke(roundTripPipeline, <<>>, ok)
             d == Deliver(i.stack, i.ret)
         IN /\ stack' = d.stack /\ rpc' = d.rpc /\ result' = d.result
            /\ fwd' = i.fwd /\ trace' = i.trace
    /\ reqLayers' = roundTripPipeline.layers
    /\ reqFloor' = resetAt
    /\ UNCHANGED <<roundTripPipeline, registered, onceEach, resetAt, abortedAt>>
    /\ UNCHANGED notPipe

\* event.ForwardRequest() is called on the Event as newEvent made it, before
\* any pipeline layer has set the field
DefaultForward ==
    /\ rpc = "call" /\ fwd = NoForward
    /\ \E ok \in BOOLEAN :
         LET i == Invoke(fwd, <<>>, ok)
         IN /\ stack' = i.stack /\ fwd' = i.fwd /\ trace' = i.trace
            /\ result' = i.ret
    /\ rpc' = "returned"
    /\ UNCHANGED <<roundTripPipeline, registered, reqLayers, onceEach,
                   resetAt, reqFloor, abortedAt>>
    /\ UNCHANGED notPipe

\* the innermost active hook calls event.ForwardRequest()
HookForward ==
    /\ rpc = "running" /\ stack # <<>>
    /\ stack[Len(stack)].calls < MaxForwards
    /\ \E ok \in BOOLEAN :
         LET stk == [stack EXCEPT ![Len(stack)].calls = @ + 1]
             i == Invoke(fwd, stk, ok)
             d == Deliver(i.stack, i.ret)
         IN /\ stack' = d.stack /\ rpc' = d.rpc /\ result' = d.result
            /\ fwd' = i.fwd /\ trace' = i.trace
    /\ UNCHANGED <<roundTripPipeline, registered, reqLayers, onceEach,
                   resetAt, reqFloor, abortedAt>>
    /\ UNCHANGED notPipe

\* the innermost active hook returns: what its last forward call gave it, a
\* response of its own when it made none, or an error; the wrapper passes it on
HookReturn ==
    /\ rpc = "running" /\ stack # <<>>
    /\ LET top == stack[Len(stack)]
           d(r) == Deliver(SubSeq(stack, 1, Len(stack) - 1), r)
       IN /\ \E r \in {IF top.got = NoResult THEN "hook response" ELSE top.got,
                        "hook error"} :
               /\ stack' = d(r).stack /\ rpc' = d(r).rpc
               /\ result' = d(r).result
          /\ trace' = Append(trace, <<"exit", top.hook>>)
          /\ onceEach' = (onceEach /\ top.calls = 1)
    /\ UNCHANGED <<roundTripPipeline, registered, fwd, reqLayers, resetAt,
                   reqFloor,
                   abortedAt>>
    /\ UNCHANGED notPipe

\* the innermost active hook calls event.Abort(), which newEvent set to a
\* function with an empty body: nothing of the Event or the pipeline changes
Abort ==
    /\ rpc = "running" /\ stack # <<>>
    /\ abortedAt = -1
    /\ abortedAt' = Len(trace)
    /\ UNCHANGED <<roundTripPipeline, registered, rpc, fwd, stack, trace,
                   reqLayers, onceEach, result, resetAt, reqFloor>>
    /\ UNCHANGED notPipe

\* ServeProxyRequest is done with the request; the next request may come
EndRequest ==
    /\ rpc \in {"done", "returned"}
    /\ rpc' = "idle"
    /\ UNCHANGED <<roundTripPipeline, registered, fwd, stack, trace,
                   reqLayers, onceEach, result, resetAt, reqFloor, abortedAt>>
    /\ UNCHANGED notPipe

PipeNext ==
    \/ Register
    \/ ResetPipeline
    \/ StartRequest
    \/ CallPipeline
    \/ DefaultForward
    \/ HookForward
    \/ HookReturn
    \/ Abort
    \/ EndRequest

\* the hooks of a pipeline
HooksOf(layers) == {layers[i] : i \in DOMAIN layers}

\* C3: with hooks h1, ..., hn registered in that order (hook k is the k-th
\* one registered) and every hook calling event.ForwardRequest exactly once, a
\* request enters hn, ..., h1 and then the upstream forward, each exactly once,
\* and the result returns through the hooks in the reverse order h1, ..., hn.
C3_HookOrder ==
    (rpc = "done" /\ onceEach) =>
        LET n == Len(reqLayers)
        IN /\ Len(trace) = 2 * n + 1
           /\ trace[n + 1] = <<"upstream", 0>>
           /\ \A i \in 1..n :
                 /\ trace[i][1] = "enter"
                 /\ trace[2 * n + 2 - i] = <<"exit", trace[i][2]>>
                 /\ i < n => trace[i][2] > trace[i + 1][2]
           /\ {trace[i][2] : i \in 1..n} = HooksOf(reqLayers)

\* a request went through three hooks, registered by more than one Register
C3_Witness ==
    /\ rpc = "done" /\ onceEach /\ result = "response"
    /\ HooksOf(reqLayers) = {1, 2, 3}

\* the upstream round trips of the current request
RoundTrips == {i \in DOMAIN trace : trace[i][1] = "upstream"}

Entered == {trace[i][2] : i \in {j \in DOMAIN trace : trace[j][1] = "enter"}}

\* C17: after ResetPipeline the pipeline is the upstream forward alone: a
\* request handed over then enters no hook registered before the reset, and
\* goes to the upstream forward at once when nothing was registered since;
\* hooks registered after the reset wrap only the upstream forward.
C17_ResetDropsHooks ==
    /\ roundTripPipeline.kind = "chain" =>
           HooksOf(roundTripPipeline.layers) = (resetAt + 1)..registered
    /\ rpc \in {"running", "done"} =>
           /\ \A f \in Entered : f > reqFloor
           /\ reqLayers = <<>> => trace = << <<"upstream", 0>> >>

\* hooks were registered, the pipeline was reset, one more hook was
\* registered, and a request went through that hook only
C17_Witness ==
    /\ rpc = "done" /\ reqFloor = 2 /\ Entered = {3}
    /\ result = "response"

\* the steps of handling a request
RequestStep ==
    \/ StartRequest \/ CallPipeline \/ DefaultForward
    \/ HookForward \/ HookReturn \/ Abort \/ EndRequest

\* C33: the pipeline reference is written by Register and ResetPipeline
\* only: the handling of a request reads it and never writes it, also when no
\* hook was ever registered.
C33_RequestsOnlyRead ==
    [][RequestStep => roundTripPipeline' = roundTripPipeline]_vars

\* C21: once the Event's cancellation signal has been triggered, a hook that
\* calls event.ForwardRequest enters no further layer and no upstream forward
\* (the call yields Cancelled instead, a result no step of the code produces).
C21_AbortShortCircuits ==
    abortedAt >= 0 =>
        /\ \A i \in DOMAIN trace :
              i > abortedAt => trace[i][1] \notin {"enter", "upstream"}
        /\ \A i \in DOMAIN stack :
              stack[i].got \in {NoResult, "Cancelled", "hook response",
                                "hook error"}

\* the position of hook f in the pipeline the request runs through
LayerOf(f) == CHOOSE i \in DOMAIN reqLayers : reqLayers[i] = f

\* C39: every event.ForwardRequest call of a hook h_k, a repeated one
\* included, enters the hook h_(k-1) right below it in the pipeline, or the
\* upstream forward when h_k is the innermost hook.
C39_ReplayEntersInner ==
    [][HookForward =>
          LET k == LayerOf(stack[Len(stack)].hook)
          IN trace'[Len(trace')] =
                IF k = 1 THEN <<"upstream", 0>>
                ELSE <<"enter", reqLayers[k - 1]>>]_vars

(***************************************************************************)
(* Response relay: proxy/proxy.go ServeProxyRequest, copyHeader            *)
(***************************************************************************)
\* header names; a http.Header maps a name to its values, none when absent
HeaderNames == {"Content-Type", "X-Hash"}
TrailerNames == {"X-Hash", "X-Sum"}
AllNames == HeaderNames \cup TrailerNames \cup {"Trailer"}
ValueLists == {<<>>, <<"1">>, <<"1", "2">>}
EmptyHeader == [n \in AllNames |-> <<>>]

RECURSIVE SeqsUpTo(_, _)
\* the sequences over S of length at most n
SeqsUpTo(S, n) ==
    IF n = 0 THEN {<<>>}
    ELSE LET shorter == SeqsUpTo(S, n - 1)
         IN shorter \cup {Append(q, x) : q \in shorter, x \in S}

\* the responses the upstream client hands back: the transport has moved the
\* Trailer header into Response.Trailer, whose keys are the announced names
Responses ==
    {[StatusCode |-> c, Header |-> h, TrailerKeys |-> DOMAIN t, Trailer |-> t,
      Body |-> b] :
        c \in {200, 404},
        h \in {g \in [AllNames -> ValueLists] :
                 g["Trailer"] = <<>> /\ g["X-Sum"] = <<>>},
        t \in UNION {[K -> {<<>>, <<"3">>, <<"3", "4">>}] : K \in SUBSET TrailerNames},
        b \in SeqsUpTo({"a", "b"}, MaxBody)}

NoResponse ==
    [StatusCode |-> 0, Header |-> EmptyHeader, TrailerKeys |-> {},
     Trailer |-> <<>>, Body |-> <<>>]

\* a ResponseWriter nothing was written to
NewWriter ==
    [hdr |-> EmptyHeader, wrote |-> <<>>, sent |-> EmptyHeader, body |-> <<>>,
     trailer |-> <<>>, finished |-> FALSE]

RelayInit ==
    /\ rlpc = "idle"
    /\ up = NoResponse
    /\ rw = NewWriter
    /\ rlog = {}

\* http.ResponseWriter.WriteHeader: the header map as it is now is sent
WriteHeader(w, code) ==
    [w EXCEPT !.wrote = Append(@, code),
              !.sent = IF w.wrote = <<>> THEN w.hdr ELSE @]

SendErrorUntyped(w, msg) ==
    [WriteHeader(w, 500) EXCEPT !.body = Append(@, msg)]

\* Event.SendError: Content-Type text/plain, status 500, the message as body
SendError(w, msg) ==
    LET h == [w EXCEPT !.hdr["Content-Type"] = <<"text/plain">>]
    IN [WriteHeader(h, 500) EXCEPT !.body = Append(@, msg)]

copyHeaderAll(dst, src, trailerKeys) ==
    [n \in AllNames |-> dst[n] \o src[n]]

copyHeaderFirst(dst, src, trailerKeys) ==
    [n \in AllNames |->
        IF n \in trailerKeys \/ src[n] = <<>> THEN dst[n]
        ELSE Append(dst[n], Head(src[n]))]

\* copyHeader: every value of src is added to dst, except under the names
\* that are keys of trailer
copyHeader(dst, src, trailerKeys) ==
    [n \in AllNames |-> IF n \in trailerKeys THEN dst[n] ELSE dst[n] \o src[n]]

\* the orders in which a range over a map may visit the keys K
Orders(K) ==
    {q \in SeqsUpTo(K, Cardinality(K)) :
        Len(q) = Cardinality(K) /\ {q[i] : i \in DOMAIN q} = K}

\* ServeProxyRequest up to the pipeline's result: prepareRequest or the
\* pipeline fails and SendError answers, or the pipeline returns a response.
\* With no pipeline registered ForwardThroughPipeline installs p.ForwardRequest
\* and the response is the upstream's
ServeProxyRequest ==
    /\ rlpc = "idle"
    /\ rlog' = {}
    /\ \/ \E msg \in {"error preparing requests", "error executing request"} :
            /\ rw' = SendError(NewWriter, msg)
            /\ up' = NoResponse
            /\ rlpc' = "finish"
            /\ roundTripPipeline' =
                  IF msg = "error preparing requests" \/ roundTripPipeline.kind # "nil"
                  THEN roundTripPipeline ELSE Chain(<<>>)
       \/ \E r \in Responses :
            /\ up' = r
            /\ rw' = NewWriter
            /\ rlpc' = "headers"
            /\ roundTripPipeline' =
                  IF roundTripPipeline.kind = "nil" THEN Chain(<<>>)
                  ELSE roundTripPipeline
    /\ UNCHANGED notRelay

\* ServeProxyRequest: copyHeader, the Trailer announcement, WriteHeader
RelayHeader ==
    /\ rlpc = "headers"
    /\ LET copied == [rw EXCEPT !.hdr = copyHeader(@, up.Header, up.TrailerKeys)]
       IN \E names \in Orders(up.TrailerKeys) :
            rw' = WriteHeader(
                    IF Cardinality(up.TrailerKeys) > 0
                    THEN [copied EXCEPT !.hdr["Trailer"] = names]
                    ELSE copied,
                    up.StatusCode)
    /\ rlpc' = "copy"
    /\ UNCHANGED <<up, rlog, roundTripPipeline>>
    /\ UNCHANGED notRelay

\* io.Copy(event.ResponseWriter, response.Body): the next byte is written,
\* the end of the body is reached, or reading or writing fails and is logged
RelayCopy ==
    /\ rlpc = "copy"
    /\ \/ /\ Len(rw.body) < Len(up.Body)
          /\ rw' = [rw EXCEPT !.body = Append(@, up.Body[Len(rw.body) + 1])]
          /\ UNCHANGED <<rlpc, rlog>>
       \/ /\ Len(rw.body) = Len(up.Body)
          /\ rlpc' = "close"
          /\ UNCHANGED <<rw, rlog>>
       \/ /\ rlpc' = "finish"
          /\ rlog' = rlog \cup {"error copying body"}
          /\ UNCHANGED rw
    /\ UNCHANGED <<up, roundTripPipeline>>
    /\ UNCHANGED notRelay

\* the trailer loop run also after a failed Close
afterCloseAlways(w, r, failed) ==
    [w EXCEPT !.hdr =
        [n \in AllNames |->
            IF n \in r.TrailerKeys THEN @[n] \o r.Trailer[n] ELSE @[n]]]

\* the end of ServeProxyRequest: when Close has failed the handler returns,
\* else every trailer value is added to the ResponseWriter's header
afterClose(w, r, failed) ==
    IF failed THEN w
    ELSE [w EXCEPT !.hdr =
            [n \in AllNames |->
                IF n \in r.TrailerKeys THEN @[n] \o r.Trailer[n] ELSE @[n]]]

\* response.Body.Close(), and after it the trailer values are added to the
\* ResponseWriter's header; a failed Close is logged
RelayTrailer ==
    /\ rlpc = "close"
    /\ \E failed \in BOOLEAN :
          /\ rw' = afterClose(rw, up, failed)
          /\ rlog' = IF failed THEN rlog \cup {"error closing body"} ELSE rlog
    /\ rlpc' = "finish"
    /\ UNCHANGED <<up, roundTripPipeline>>
    /\ UNCHANGED notRelay

\* the names a header map's Trailer field declares
Declared(h) == {h["Trailer"][i] : i \in DOMAIN h["Trailer"]}

\* the handler returns: the server ends the response and sends, as trailers,
\* the values the header map now holds under the names declared before the
\* status was written
RelayFinish ==
    /\ rlpc = "finish"
    /\ rw' = [rw EXCEPT !.finished = TRUE,
                        !.trailer = [n \in Declared(rw.sent) |-> rw.hdr[n]]]
    /\ rlpc' = "done"
    /\ UNCHANGED <<up, rlog, roundTripPipeline>>
    /\ UNCHANGED notRelay

RelayNext ==
    \/ ServeProxyRequest
    \/ RelayHeader
    \/ RelayCopy
    \/ RelayTrailer
    \/ RelayFinish

\* the relay has announced trailers and written the status
Announced == up.TrailerKeys # {} /\ rw.wrote # <<>>

\* C5: when the upstream response announces trailers, the Trailer header names
\* exactly those names before the status code is written, none of the names is
\* sent as a regular header, the trailer values are added only after the whole
\* body was copied and closed, and the client then observes the trailer names
\* and values the upstream sent.
C5_TrailersPreserved ==
    Announced =>
        /\ Declared(rw.sent) = up.TrailerKeys
        /\ Len(rw.sent["Trailer"]) = Cardinality(up.TrailerKeys)
        /\ \A n \in up.TrailerKeys :
              /\ rw.sent[n] = <<>>
              /\ rw.hdr[n] # <<>> =>
                    (rw.body = up.Body /\ rlpc \in {"finish", "done"} /\ rlog = {})
        /\ (rlpc = "done" /\ rlog = {}) =>
              (DOMAIN rw.trailer = up.TrailerKeys
                 /\ \A n \in up.TrailerKeys : rw.trailer[n] = up.Trailer[n])

\* a response whose trailer name is also a header name was relayed in full
C5_Witness ==
    /\ rlpc = "done" /\ rlog = {}
    /\ up.TrailerKeys = TrailerNames
    /\ up.Header["X-Hash"] = <<"1">>
    /\ rw.trailer["X-Hash"] = <<"3", "4">>
    /\ Len(up.Body) = MaxBody

\* b begins with a
IsPrefix(a, b) == Len(a) <= Len(b) /\ a = SubSeq(b, 1, Len(a))

\* C6: with no hook registered, the status code, the non-trailer header
\* name/value pairs and the body bytes delivered to the client equal those of
\* the upstream response; while the body is copied the client holds a prefix.
C6_RoundTrip ==
    (up # NoResponse /\ roundTripPipeline.layers = <<>> /\ rw.wrote # <<>>) =>
        /\ rw.wrote = <<up.StatusCode>>
        /\ \A n \in AllNames \ (up.TrailerKeys \cup {"Trailer"}) :
              rw.sent[n] = up.Header[n]
        /\ IsPrefix(rw.body, up.Body)
        /\ (rlpc \in {"close", "finish", "done"} /\ "error copying body" \notin rlog)
              => rw.body = up.Body

\* a response with a two-valued header and a full body reached the client
C6_Witness ==
    /\ rlpc = "done" /\ rlog = {} /\ roundTripPipeline = Chain(<<>>)
    /\ up.TrailerKeys = {}
    /\ up.Header["X-Hash"] = <<"1", "2">> /\ rw.sent["X-Hash"] = <<"1", "2">>
    /\ up.StatusCode = 404 /\ rw.body = up.Body /\ Len(up.Body) = MaxBody

\* ServeProxyRequest got an error from prepareRequest or from the pipeline
Failed == up = NoResponse /\ rlpc \in {"finish", "done"}

\* C14: when prepareRequest, a hook or the upstream forward returns an error,
\* the client gets one response: status 500, Content-Type text/plain and no
\* other header, the error message as body, and no trailer.
C14_ErrorIs500 ==
    Failed =>
        /\ rw.wrote = <<500>>
        /\ rw.sent = [EmptyHeader EXCEPT !["Content-Type"] = <<"text/plain">>]
        /\ rw.hdr = rw.sent
        /\ Len(rw.body) = 1
        /\ rw.body[1] \in {"error preparing requests", "error executing request"}
        /\ rlpc = "done" => rw.finished /\ DOMAIN rw.trailer = {}

\* the pipeline failed and the handler has returned
C14_Witness ==
    /\ Failed /\ rlpc = "done"
    /\ rw.body = <<"error executing request">>

\* C37: when copying or closing the response body fails after the upstream
\* status was written, the failure is logged and nothing else happens: the
\* status the client got stays the only one (so no 500), the body holds
\* bytes of the upstream body only, and no trailer value is added or sent.
C37_LateFailureLogged ==
    up # NoResponse /\ rlog # {} =>
        /\ rw.wrote = <<up.StatusCode>>
        /\ IsPrefix(rw.body, up.Body)
        /\ \A n \in up.TrailerKeys : rw.hdr[n] = <<>>
        /\ rlpc = "done" => \A n \in DOMAIN rw.trailer : rw.trailer[n] = <<>>

\* closing the body of a fully copied response with two announced trailers
\* failed and the handler has returned
C37_Witness ==
    /\ rlpc = "done" /\ rlog = {"error closing body"}
    /\ up.TrailerKeys = TrailerNames /\ up.Trailer["X-Hash"] = <<"3", "4">>
    /\ rw.body = up.Body /\ Len(up.Body) = MaxBody
    /\ DOMAIN rw.trailer = TrailerNames

(***************************************************************************)
(* Event: proxy/event.go raw access to the request, prepareRequest         *)
(***************************************************************************)
\* header names as net/http delivers them (canonical MIME form), and the
\* spellings of the rename table
ReqNames == {"Connection", "Proxy-Connection", "Accept", "Upgrade",
             "Sec-Websocket-Key", "Sec-Websocket-Version",
             "Sec-Websocket-Protocol", "Sec-Websocket-Extensions"}
MixedNames == {"Sec-WebSocket-Key", "Sec-WebSocket-Version",
               "Sec-WebSocket-Protocol", "Sec-WebSocket-Extensions"}
FieldNames == ReqNames \cup MixedNames

\* strings.ToLower on the header names
ToLower(n) ==
    CASE n = "Connection" -> "connection"
      [] n = "Proxy-Connection" -> "proxy-connection"
      [] n = "Accept" -> "accept"
      [] n = "Upgrade" -> "upgrade"
      [] n \in {"Sec-Websocket-Key", "Sec-WebSocket-Key"} -> "sec-websocket-key"
      [] n \in {"Sec-Websocket-Version", "Sec-WebSocket-Version"} ->
            "sec-websocket-version"
      [] n \in {"Sec-Websocket-Protocol", "Sec-WebSocket-Protocol"} ->
            "sec-websocket-protocol"
      [] n \in {"Sec-Websocket-Extensions", "Sec-WebSocket-Extensions"} ->
            "sec-websocket-extensions"

filterHeadersShort == {"connection"}

\* filterHeaders: the (lower-case) names that are not sent upstream
filterHeaders == {"proxy-connection", "connection"}

\* renameHeaders: lower-case name -> mixed-case representation
renameHeaders ==
    [n \in {"sec-websocket-key", "sec-websocket-version",
            "sec-websocket-protocol", "sec-websocket-extensions"} |->
        CASE n = "sec-websocket-key" -> "Sec-WebSocket-Key"
          [] n = "sec-websocket-version" -> "Sec-WebSocket-Version"
          [] n = "sec-websocket-protocol" -> "Sec-WebSocket-Protocol"
          [] n = "sec-websocket-extensions" -> "Sec-WebSocket-Extensions"]

NoFields == [n \in FieldNames |-> <<>>]
Present(h) == {n \in FieldNames : h[n] # <<>>}

\* the header maps of inbound requests: at most MaxFields canonical names
\* with values that tell the fields apart
ValuesOf(n) == IF n = "Accept" THEN <<"text/html", n>> ELSE <<n>>
InboundHeaders ==
    {[n \in FieldNames |-> IF n \in S THEN ValuesOf(n) ELSE <<>>] :
        S \in {T \in SUBSET ReqNames : Cardinality(T) <= MaxFields}}

\* the name prepareRequest stores the values of field name under
OutName(name) ==
    IF ToLower(name) \in DOMAIN renameHeaders
    THEN renameHeaders[ToLower(name)] ELSE name

\* prepareRequest's loop over e.Req.Header into the new request's header
PrepareHeader(h) ==
    LET kept == {n \in Present(h) : ToLower(n) \notin filterHeaders}
    IN [m \in FieldNames |->
          IF \E n \in kept : OutName(n) = m
          THEN h[CHOOSE n \in kept : OutName(n) = m] ELSE <<>>]

\* A body reader: buf holds the bytes a bufio.Reader has read ahead, rest the
\* bytes still in the source, bad says that the source ends in a read error
Body(kind, data, bad) == [kind |-> kind, buf |-> <<>>, rest |-> data, bad |-> bad]
NoBody == Body("NoBody", <<>>, FALSE)
ReqBytes == {"a", "b"}
\* the first k bytes of s, or all of s when it is shorter
Take(s, k) == SubSeq(s, 1, IF k <= Len(s) THEN k ELSE Len(s))

\* ioutil.ReadAll on a body: all bytes up to the end, or the source's error
ReadAll(b) ==
    [ok |-> ~b.bad, data |-> b.buf \o b.rest,
     body |-> [b EXCEPT !.buf = <<>>, !.rest = <<>>]]

readWithoutCloseDrains(b) ==
    [ok |-> ReadAll(b).ok, data |-> ReadAll(b).data, body |-> ReadAll(b).body]

\* readWithoutClose: read the body fully, close it, and put a NopCloser over
\* a buffer of the bytes read in its place
readWithoutClose(b) ==
    LET r == ReadAll(b)
    IN IF r.ok THEN [ok |-> TRUE, data |-> r.data,
                     body |-> Body("buffer", r.data, FALSE)]
       ELSE [ok |-> FALSE, data |-> <<>>, body |-> r.body]

NoRequest ==
    [Method |-> "", Scheme |-> "", URLHost |-> "", Host |-> "",
     RequestURI |-> "", Header |-> NoFields, Body |-> NoBody,
     ContentLength |-> 0]
NoRaw == [op |-> "none", ok |-> FALSE, body |-> <<>>, n |-> 0]

\* the requests the server hands to the proxy: directly from the client
\* (absolute URL, no force fields) or inside a tunnel, where ServeConnect's
\* handler sets ForceHost and ForceScheme
Inbound(h, data, bad, scheme) ==
    [req |-> [Method |-> IF data = <<>> THEN "GET" ELSE "POST",
              Scheme |-> IF scheme = "" THEN "http" ELSE "",
              URLHost |-> IF scheme = "" THEN "b.test" ELSE "",
              Host |-> "b.test", RequestURI |-> "/x", Header |-> h,
              Body |-> Body("stream", data, bad),
              ContentLength |-> Len(data)],
     force |-> [Host |-> IF scheme = "" THEN "" ELSE "a.test:443",
                Scheme |-> scheme]]

\* prepareRequest with a body reader that starts behind the peeked bytes
prepareRequestDropsPeek(r, f, k) ==
    [Method |-> r.Method,
     Scheme |-> IF f.Host # "" THEN f.Scheme ELSE r.Scheme,
     URLHost |-> IF f.Host # "" THEN f.Host ELSE r.URLHost,
     Host |-> r.Host,
     RequestURI |-> "",
     Header |-> PrepareHeader(r.Header),
     Body |-> IF r.Body.buf \o r.Body.rest = <<>> THEN NoBody
              ELSE [kind |-> "bufio",
                    buf |-> <<>>,
                    rest |-> SubSeq(r.Body.rest, Len(Take(r.Body.rest, k)) + 1,
                                    Len(r.Body.rest)),
                    bad |-> r.Body.bad],
     ContentLength |-> r.ContentLength]

\* Event.prepareRequest: the force fields overwrite scheme and host of the
\* URL; a body that yields no byte becomes http.NoBody, any other body is
\* read through the bufio.Reader, which has read k bytes ahead for the peek;
\* the new request gets the filtered and renamed header, the Host and the
\* ContentLength of the inbound request
prepareRequest(r, f, k) ==
    [Method |-> r.Method,
     Scheme |-> IF f.Host # "" THEN f.Scheme ELSE r.Scheme,
     URLHost |-> IF f.Host # "" THEN f.Host ELSE r.URLHost,
     Host |-> r.Host,
     RequestURI |-> "",
     Header |-> PrepareHeader(r.Header),
     Body |-> IF r.Body.buf \o r.Body.rest = <<>> THEN NoBody
              ELSE [kind |-> "bufio",
                    buf |-> r.Body.buf \o Take(r.Body.rest, k),
                    rest |-> SubSeq(r.Body.rest, Len(Take(r.Body.rest, k)) + 1,
                                    Len(r.Body.rest)),
                    bad |-> r.Body.bad],
     ContentLength |-> r.ContentLength]

\* the numbers of bytes the bufio.Reader may have read when Peek(1) returns
ReadAhead(b) == {k \in 1..MaxReqBody : k = 1 \/ k <= Len(b.rest)}

\* the header maps of the requests hooks work on
HookHeaders ==
    {h \in InboundHeaders :
        Present(h) \in {{}, {"Connection", "Sec-Websocket-Key"}}}

EventInit ==
    /\ epc = "none"
    /\ req = NoRequest
    /\ force = [Host |-> "", Scheme |-> ""]
    /\ current = [data |-> <<>>, by |-> "none"]
    /\ got = NoRaw
    /\ sentBody = NoRaw
    /\ prepared = FALSE

\* newEvent for a request the server has read
Arrive ==
    /\ epc = "none"
    /\ \E h \in HookHeaders, data \in SeqsUpTo(ReqBytes, MaxReqBody),
          bad \in BOOLEAN, scheme \in {"", "http", "https"} :
        /\ req' = Inbound(h, data, bad, scheme).req
        /\ force' = Inbound(h, data, bad, scheme).force
        /\ current' = [data |-> data, by |-> "newEvent"]
    /\ epc' = "live"
    /\ UNCHANGED <<got, sentBody, prepared>>
    /\ UNCHANGED notEvent

\* ServeProxyRequest calls prepareRequest before any hook sees the Event and
\* puts the new request into e.Req
PrepareRequest ==
    /\ epc = "live" /\ ~prepared /\ req.Body.kind = "stream" /\ got = NoRaw
    /\ \E k \in ReadAhead(req.Body) : req' = prepareRequest(req, force, k)
    /\ prepared' = TRUE
    /\ UNCHANGED <<epc, force, current, got, sentBody>>
    /\ UNCHANGED notEvent

\* Event.SetRequestBody(body)
SetRequestBody ==
    /\ epc = "live"
    /\ \E b \in SeqsUpTo(ReqBytes, MaxReqBody) :
        /\ req' = [req EXCEPT !.Body = Body("buffer", b, FALSE)]
        /\ current' = [data |-> b, by |-> "SetRequestBody"]
    /\ got' = NoRaw
    /\ UNCHANGED <<epc, force, sentBody, prepared>>
    /\ UNCHANGED notEvent

\* Event.SetRequest(rawRequest): http.ReadRequest parses the bytes; the body
\* is the part of the payload that Content-Length announces, and reading it
\* fails at the end when the payload is shorter
SetRequest ==
    /\ epc = "live"
    /\ \E wellformed \in BOOLEAN, clen \in 0..MaxReqBody,
          payload \in SeqsUpTo(ReqBytes, MaxReqBody) :
        IF wellformed
        THEN /\ req' = [Method |-> IF clen = 0 THEN "GET" ELSE "POST",
                        Scheme |-> "", URLHost |-> "", Host |-> "b.test",
                        RequestURI |-> "/test", Header |-> NoFields,
                        Body |-> IF clen = 0 THEN NoBody
                                 ELSE Body("parsed", Take(payload, clen),
                                           Len(payload) < clen),
                        ContentLength |-> clen]
             /\ current' = [data |-> Take(payload, clen), by |-> "SetRequest"]
             /\ got' = NoRaw
        ELSE UNCHANGED <<req, current, got>>
    /\ UNCHANGED <<epc, force, sentBody, prepared>>
    /\ UNCHANGED notEvent

\* the count of successive reads after one more successful read
Reads(n) == IF n < MaxReads THEN n + 1 ELSE n

\* Event.RawRequestBody
RawRequestBody ==
    /\ epc = "live"
    /\ LET r == readWithoutClose(req.Body)
       IN /\ got' = [op |-> "RawRequestBody", ok |-> r.ok, body |-> r.data,
                     n |-> IF r.ok THEN Reads(got.n) ELSE 0]
          /\ req' = [req EXCEPT !.Body = r.body]
    /\ UNCHANGED <<epc, force, current, sentBody, prepared>>
    /\ UNCHANGED notEvent

\* Event.RawRequest: readWithoutClose, then httputil.DumpRequest, which
\* drains the body into the dump and leaves a reader over the same bytes
RawRequest ==
    /\ epc = "live"
    /\ LET r == readWithoutClose(req.Body)
           d == ReadAll(r.body)
       IN IF r.ok
          THEN /\ got' = [op |-> "RawRequest", ok |-> TRUE, body |-> d.data,
                          n |-> Reads(got.n)]
               /\ req' = [req EXCEPT !.Body = Body("buffer", d.data, FALSE)]
          ELSE /\ got' = [op |-> "RawRequest", ok |-> FALSE, body |-> <<>>,
                          n |-> 0]
               /\ req' = [req EXCEPT !.Body = r.body]
    /\ UNCHANGED <<epc, force, current, sentBody, prepared>>
    /\ UNCHANGED notEvent

\* Proxy.ForwardRequest: the upstream client reads the body to send it
Send ==
    /\ epc = "live"
    /\ LET r == ReadAll(req.Body)
       IN /\ sentBody' = [op |-> "send", ok |-> r.ok, body |-> r.data, n |-> 1]
          /\ req' = [req EXCEPT !.Body = r.body]
    /\ epc' = "sent"
    /\ UNCHANGED <<force, current, got, prepared>>
    /\ UNCHANGED notEvent

EventNext ==
    \/ Arrive
    \/ PrepareRequest
    \/ SetRequestBody
    \/ SetRequest
    \/ RawRequestBody
    \/ RawRequest
    \/ Send

\* C8: every RawRequestBody and RawRequest call returns the complete current
\* body, so the same bytes as the call before it; a call fails only when
\* reading the body's source fails; and the body the upstream client reads
\* after such a call yields again the bytes the call returned.
C8_RawReadsRepeat ==
    /\ got.op # "none" /\ got.ok => got.body = current.data
    /\ got.op # "none" /\ ~got.ok => req.Body.bad
    /\ got.ok /\ sentBody.op = "send" =>
           sentBody.ok /\ sentBody.body = got.body

\* a body given by SetRequestBody was read twice and then sent
C8_Witness ==
    /\ current.by = "SetRequestBody" /\ Len(current.data) >= 2
    /\ got.ok /\ got.n >= 2
    /\ sentBody.op = "send" /\ sentBody.body = current.data

\* C18: after SetRequest has succeeded the Event's request is the parsed
\* one, with the method of the request line, and its RequestURI is empty, as
\* the upstream client requires of a request it sends.
C18_SetRequestSendable ==
    current.by = "SetRequest" =>
        /\ req.Method = IF req.ContentLength = 0 THEN "GET" ELSE "POST"
        /\ req.Header = NoFields
        /\ req.RequestURI = ""

\* C34: a request whose body was given by SetRequestBody(b) and that went
\* through prepareRequest is sent upstream with a ContentLength equal to the
\* length of b.
C34_ContentLengthFollowsBody ==
    prepared /\ current.by = "SetRequestBody" /\ epc = "sent" =>
        req.ContentLength = Len(current.data)

(***************************************************************************)
(* prepareRequest on the requests the server can hand to the proxy         *)
(***************************************************************************)
NoEvent == [req |-> NoRequest, force |-> [Host |-> "", Scheme |-> ""]]

NoURL == [Scheme |-> "none", Host |-> "none"]
ForceHosts == {"", "a.test:443"}
ForceSchemes == {"", "http", "https"}

PrepInit ==
    /\ pin = NoEvent
    /\ pout = NoRequest
    /\ pws = NoURL

\* newEvent(res, req)
PrepEvent ==
    /\ pin = NoEvent
    /\ \E h \in InboundHeaders, data \in SeqsUpTo(ReqBytes, MaxReqBody),
          bad \in BOOLEAN, scheme \in {"", "http", "https"} :
        pin' = Inbound(h, data, bad, scheme)
    /\ UNCHANGED <<pout, pws>>
    /\ UNCHANGED notPrep

\* ServeProxyRequest(req *Event) is exported and ForceHost and ForceScheme
\* are exported fields: a caller hands over an Event whose force fields it
\* chose
PrepForced ==
    /\ pin = NoEvent
    /\ \E h \in HookHeaders, data \in SeqsUpTo(ReqBytes, MaxReqBody),
          scheme \in {"", "http"}, fh \in ForceHosts, fs \in ForceSchemes :
        pin' = [req |-> Inbound(h, data, FALSE, scheme).req,
                force |-> [Host |-> fh, Scheme |-> fs]]
    /\ UNCHANGED <<pout, pws>>
    /\ UNCHANGED notPrep

\* err := event.prepareRequest()
PrepCall ==
    /\ pin # NoEvent /\ pout = NoRequest
    /\ \E k \in ReadAhead(pin.req.Body) :
        pout' = prepareRequest(pin.req, pin.force, k)
    /\ UNCHANGED <<pin, pws>>
    /\ UNCHANGED notPrep

\* the scheme switch of HandleUpgradeRequest
wsScheme(scheme) ==
    CASE scheme = "http" -> "ws"
      [] scheme = "https" -> "wss"
      [] OTHER -> scheme

\* HandleUpgradeRequest: wsURL is a copy of the request URL, ForceHost and
\* ForceScheme each replace their part when set, then http becomes ws and
\* https becomes wss
wsURL(r, f) ==
    [Scheme |-> wsScheme(IF f.Scheme # "" THEN f.Scheme ELSE r.Scheme),
     Host |-> IF f.Host # "" THEN f.Host ELSE r.URLHost]

\* HandleUpgradeRequest on the Event, up to the URL it dials
HandleUpgradeRequest ==
    /\ pin # NoEvent /\ pws = NoURL
    /\ pws' = wsURL(pin.req, pin.force)
    /\ UNCHANGED <<pin, pout>>
    /\ UNCHANGED notPrep

PrepNext ==
    \/ PrepEvent
    \/ PrepForced
    \/ PrepCall
    \/ HandleUpgradeRequest

\* C35: in prepareRequest and in HandleUpgradeRequest the upstream scheme is
\* ForceScheme whenever ForceScheme is set and the upstream authority is
\* ForceHost whenever ForceHost is set, each whatever the other field is,
\* and the two paths arrive at the same scheme (up to http/ws, https/wss)
\* and the same authority.
C35_ForceIndependent ==
    pout # NoRequest /\ pws # NoURL =>
        /\ pin.force.Scheme # "" =>
               /\ pout.Scheme = pin.force.Scheme
               /\ pws.Scheme = wsScheme(pin.force.Scheme)
        /\ pin.force.Host # "" =>
               /\ pout.URLHost = pin.force.Host
               /\ pws.Host = pin.force.Host
        /\ pws.Scheme = wsScheme(pout.Scheme)
        /\ pws.Host = pout.URLHost

\* C36: prepareRequest keeps the body: reading the body of the prepared
\* request yields the bytes of the inbound body in their order, the peeked
\* first byte first, and an inbound body that yields no byte is replaced by
\* http.NoBody.
C36_BodyPreserved ==
    pout # NoRequest =>
        LET B == pin.req.Body.buf \o pin.req.Body.rest
        IN IF B = <<>> THEN pout.Body = NoBody
           ELSE /\ ReadAll(pout.Body).data = B
                /\ pout.Body.buf # <<>>
                /\ pout.Body.buf[1] = B[1]

\* a two-byte body was prepared with one byte peeked and one byte still in
\* the source
C36_Witness ==
    /\ pout # NoRequest
    /\ pin.req.Body.rest = <<"a", "b">>
    /\ pout.Body.buf = <<"a">>
    /\ pout.Body.rest = <<"b">>

\* C9: the header of the prepared request holds no connection and no
\* proxy-connection field, holds every sec-websocket-key, -version, -protocol
\* and -extensions field of the inbound request under the mixed-case name of
\* the rename table, every other inbound field under its own name, each with
\* the inbound values, and holds nothing else.
C9_PreparedHeader ==
    pout # NoRequest =>
      LET in == pin.req.Header
          out == pout.Header
          hop == {"connection", "proxy-connection"}
          ws == {"sec-websocket-key", "sec-websocket-version",
                 "sec-websocket-protocol", "sec-websocket-extensions"}
          to(n) == IF ToLower(n) \in ws THEN renameHeaders[ToLower(n)] ELSE n
      IN /\ \A m \in FieldNames : ToLower(m) \in hop => out[m] = <<>>
         /\ \A n \in Present(in) : ToLower(n) \notin hop => out[to(n)] = in[n]
         /\ \A m \in Present(out) :
               \E n \in Present(in) : ToLower(n) \notin hop /\ to(n) = m

\* a request with a hop-by-hop field, a websocket field and another field
\* was prepared
C9_Witness ==
    /\ pout # NoRequest
    /\ Present(pin.req.Header) = {"Proxy-Connection", "Sec-Websocket-Key", "Accept"}
    /\ Present(pout.Header) = {"Sec-WebSocket-Key", "Accept"}

(***************************************************************************)
(* certauth: CertificateAuthority.NewCertificate                           *)
(***************************************************************************)
\* host names, IP address texts, a text that looks like an address but is
\* none, and a stand-in for a name with a character outside of ASCII
NameTexts == {"foo.example", "127.0.0.1", "::1", "256.1.1.1", "non-ascii.example"}

\* an IP address: its value and the length of the byte slice that holds it
IP(addr, len) == [addr |-> addr, len |-> len]
NilIP == IP("", 0)

\* net.ParseIP: the 16-byte form of the address, nil for any other text
ParseIP(name) ==
    CASE name = "127.0.0.1" -> IP("127.0.0.1", 16)
      [] name = "::1" -> IP("::1", 16)
      [] OTHER -> NilIP

\* net.IP.To4: the 4-byte form of an IPv4 address, nil for other addresses
To4(ip) == IF ip.addr = "127.0.0.1" THEN IP(ip.addr, 4) ELSE NilIP

NoTemplate == [DNSNames |-> <<>>, IPAddresses |-> <<>>]

RECURSIVE AppendNamesAllDNS(_, _)
AppendNamesAllDNS(t, ns) ==
    IF ns = <<>> THEN t
    ELSE AppendNamesAllDNS(
             [t EXCEPT !.DNSNames = Append(@, Head(ns))], Tail(ns))

\* the loop over names: a parsed address is appended to the template's
\* IPAddresses, any other name to its DNSNames
RECURSIVE AppendNames(_, _)
AppendNames(t, ns) ==
    IF ns = <<>> THEN t
    ELSE AppendNames(
             IF ParseIP(Head(ns)) # NilIP
             THEN [t EXCEPT !.IPAddresses = Append(@, ParseIP(Head(ns)))]
             ELSE [t EXCEPT !.DNSNames = Append(@, Head(ns))],
             Tail(ns))

\* a name x509 can encode as dNSName (an IA5String)
IsIA5String(name) == name # "non-ascii.example"

\* x509.CreateCertificate followed by x509.ParseCertificate: the subject
\* alternative names are encoded as the DNS names, then the addresses (IPv4
\* in 4 bytes), and decoded into the two lists again; a name that is no
\* IA5String makes CreateCertificate fail
SignAndParse(t) ==
    IF \E i \in DOMAIN t.DNSNames : ~IsIA5String(t.DNSNames[i])
    THEN [ok |-> FALSE, DNSNames |-> <<>>, IPAddresses |-> <<>>]
    ELSE [ok |-> TRUE, DNSNames |-> t.DNSNames,
          IPAddresses |-> [i \in DOMAIN t.IPAddresses |->
                              IF To4(t.IPAddresses[i]) # NilIP
                              THEN To4(t.IPAddresses[i])
                              ELSE t.IPAddresses[i]]]

NoLeaf == [ok |-> FALSE, DNSNames |-> <<>>, IPAddresses |-> <<>>]

CAInit ==
    /\ capc = "idle"
    /\ nameList = <<>>
    /\ template = NoTemplate
    /\ leaf = NoLeaf

\* NewCertificate(commonName, names) up to the end of the loop over names
NewCertificate ==
    /\ capc = "idle"
    /\ \E ns \in SeqsUpTo(NameTexts, MaxNames) :
        /\ nameList' = ns
        /\ template' = AppendNames(NoTemplate, ns)
    /\ capc' = "signing"
    /\ UNCHANGED leaf
    /\ UNCHANGED notCA

\* the rest of NewCertificate: sign the template and parse the result
CreateCertificate ==
    /\ capc = "signing"
    /\ leaf' = SignAndParse(template)
    /\ capc' = "done"
    /\ UNCHANGED <<nameList, template>>
    /\ UNCHANGED notCA

CANext ==
    \/ NewCertificate
    \/ CreateCertificate

\* the elements of ns that are the text of an IP address, and the others
IPTexts(ns) == SelectSeq(ns, LAMBDA n : n \in {"127.0.0.1", "::1"})
HostTexts(ns) == SelectSeq(ns, LAMBDA n : n \notin {"127.0.0.1", "::1"})

\* C10: the DNS names of a leaf NewCertificate returns are the elements of
\* names that are no IP address, its IP addresses the elements that are, both
\* in the order of names, so that the two lists together hold every element
\* of names once.
C10_SANPartition ==
    capc = "done" /\ leaf.ok =>
        /\ leaf.DNSNames = HostTexts(nameList)
        /\ [i \in DOMAIN leaf.IPAddresses |-> leaf.IPAddresses[i].addr]
               = IPTexts(nameList)
        /\ Len(leaf.DNSNames) + Len(leaf.IPAddresses) = Len(nameList)

\* a leaf for a list that mixes host names and addresses, one of them twice
C10_Witness ==
    /\ capc = "done" /\ leaf.ok
    /\ nameList = <<"127.0.0.1", "foo.example", "127.0.0.1">>
    /\ leaf.DNSNames = <<"foo.example">>
    /\ Len(leaf.IPAddresses) = 2

(***************************************************************************)
(* Proxy.nextRequestID under concurrent callers: proxy/proxy.go            *)
(***************************************************************************)
Goroutines == {"r1", "r2", "r3"}

\* the greatest element of a set of ids, 0 for the empty set
MaxOf(S) == IF S = {} THEN 0 ELSE CHOOSE x \in S : \A y \in S : y <= x

IDInit ==
    /\ idpc = [p \in Goroutines |-> "idle"]
    /\ idgot = [p \in Goroutines |-> 0]
    /\ idseen = [p \in Goroutines |-> 0]
    /\ issued = <<>>
    /\ idret = {}

\* a goroutine calls p.nextRequestID()
IDCall(p) ==
    /\ idpc[p] = "idle"
    /\ Len(issued) + Cardinality({q \in Goroutines : idpc[q] = "called"})
          < MaxEvents
    /\ idpc' = [idpc EXCEPT ![p] = "called"]
    /\ idseen' = [idseen EXCEPT ![p] = MaxOf(idret)]
    /\ UNCHANGED <<requestID, idgot, issued, idret>>
    /\ UNCHANGED notIDs

AddUint64NoStore(p) ==
    /\ idpc[p] = "called"
    /\ requestID' = requestID
    /\ idgot' = [idgot EXCEPT ![p] = NextID]
    /\ issued' = Append(issued, NextID)
    /\ idpc' = [idpc EXCEPT ![p] = "added"]
    /\ UNCHANGED <<idseen, idret>>
    /\ UNCHANGED notIDs

\* atomic.AddUint64(&p.requestID, 1): one indivisible step that stores and
\* yields the new value
AddUint64(p) ==
    /\ idpc[p] = "called"
    /\ requestID' = NextID
    /\ idgot' = [idgot EXCEPT ![p] = NextID]
    /\ issued' = Append(issued, NextID)
    /\ idpc' = [idpc EXCEPT ![p] = "added"]
    /\ UNCHANGED <<idseen, idret>>
    /\ UNCHANGED notIDs

\* nextRequestID returns the id to its caller
IDReturn(p) ==
    /\ idpc[p] = "added"
    /\ idret' = idret \cup {idgot[p]}
    /\ idpc' = [idpc EXCEPT ![p] = "idle"]
    /\ UNCHANGED <<requestID, idgot, idseen, issued>>
    /\ UNCHANGED notIDs

IDNext ==
    \E p \in Goroutines :
        \/ IDCall(p)
        \/ AddUint64(p)
        \/ IDReturn(p)

\* C12: under every interleaving the ids nextRequestID issues are greater
\* than zero and pairwise distinct, and a call gets an id greater than every
\* id returned before the call started.
C12_IdsStrictlyOrdered ==
    /\ \A i \in DOMAIN issued : issued[i] > 0
    /\ \A i, j \in DOMAIN issued : i # j => issued[i] # issued[j]
    /\ \A p \in Goroutines : idpc[p] = "added" => idgot[p] > idseen[p]

\* two calls overlapped, and a third started after one of them had returned
C12_Witness ==
    /\ Len(issued) >= 3
    /\ \E p, q \in Goroutines :
          /\ p # q /\ idpc[p] = "added" /\ idpc[q] = "added"
          /\ idseen[p] > 0 /\ idseen[q] = idseen[p]

(***************************************************************************)
(* WebSocket relay: proxy/upgrade.go copyWSMessages, copyWSUntilError      *)
(***************************************************************************)
\* c1 is the connection to the client, c2 the connection to the upstream
Conns == {"c1", "c2"}
Other(c) == IF c = "c1" THEN "c2" ELSE "c1"

\* the message types and close codes of RFC 6455, as the websocket library
\* numbers them
TextMessage == 1
BinaryMessage == TextMessage + 1
CloseNormalClosure == 1000
CloseGoingAway == CloseNormalClosure + 1

\* data messages, and the close frames a peer may send
Message(t, p) == [kind |-> "data", t |-> t, p |-> p]
Messages == {Message(TextMessage, "foobar"), Message(BinaryMessage, "")}
CloseFrame(code) == [kind |-> "close", code |-> code]
NoMessage == [kind |-> "none"]

WSInit ==
    /\ wsIn = [c \in Conns |-> <<>>]
    /\ wsRead = [c \in Conns |-> <<>>]
    /\ wsOut = [c \in Conns |-> <<>>]
    /\ wsOpen = [c \in Conns |-> TRUE]
    /\ wsBroken = [c \in Conns |-> FALSE]
    /\ wspc = [c \in Conns |-> "read"]
    /\ wsMsg = [c \in Conns |-> NoMessage]
    /\ wsErr = [c \in Conns |-> "none"]
    /\ wsRet = "none"

\* the peer has sent a close frame on c
PeerClosed(c) ==
    \E i \in DOMAIN wsIn[c] : wsIn[c][i].kind = "close"

\* a copy task is still in its loop
Running(c) == wspc[c] \in {"read", "write"}

\* the peer of c sends a data message or a close frame; nothing arrives on a
\* connection that has failed or that was closed, and what arrives after the
\* task reading from c has ended is never looked at
PeerSend(c) ==
    /\ wsOpen[c] /\ ~wsBroken[c] /\ ~PeerClosed(c) /\ Running(c)
    /\ \/ /\ Len(wsRead[c]) + Len(wsIn[c]) < MaxMsgs
          /\ \E m \in Messages : wsIn' = [wsIn EXCEPT ![c] = Append(@, m)]
       \/ \E code \in {CloseNormalClosure, CloseGoingAway} :
             wsIn' = [wsIn EXCEPT ![c] = Append(@, CloseFrame(code))]
    /\ UNCHANGED <<wsRead, wsOut, wsOpen, wsBroken, wspc, wsMsg, wsErr, wsRet>>
    /\ UNCHANGED notWS

\* the network connection c fails while a task still uses it: every later
\* read and write on it fails
Break(c) ==
    /\ wsOpen[c] /\ ~wsBroken[c]
    /\ Running(c) \/ Running(Other(c))
    /\ wsBroken' = [wsBroken EXCEPT ![c] = TRUE]
    /\ UNCHANGED <<wsIn, wsRead, wsOut, wsOpen, wspc, wsMsg, wsErr, wsRet>>
    /\ UNCHANGED notWS

\* copyWSMessages(src, dst): src.ReadMessage() returns the next data message,
\* or a close error when the peer's close frame is next, or the error of a
\* closed or failed connection; it blocks while there is nothing to return.
\* A normal closure ends the task with nil, any other error with the error
ReadMessage(src) ==
    /\ wspc[src] = "read"
    /\ \/ /\ ~wsOpen[src] \/ wsBroken[src]
          /\ wsErr' = [wsErr EXCEPT ![src] = "error"]
          /\ wspc' = [wspc EXCEPT ![src] = "closing"]
          /\ UNCHANGED <<wsIn, wsRead, wsMsg>>
       \/ /\ wsOpen[src] /\ wsIn[src] # <<>>
          /\ wsIn' = [wsIn EXCEPT ![src] = Tail(@)]
          /\ LET m == Head(wsIn[src])
             IN IF m.kind = "data"
                THEN /\ wsRead' = [wsRead EXCEPT ![src] = Append(@, m)]
                     /\ wsMsg' = [wsMsg EXCEPT ![src] = m]
                     /\ wspc' = [wspc EXCEPT ![src] = "write"]
                     /\ UNCHANGED wsErr
                ELSE /\ wsErr' = [wsErr EXCEPT ![src] =
                           IF m.code = CloseNormalClosure THEN "nil" ELSE "error"]
                     /\ wspc' = [wspc EXCEPT ![src] = "closing"]
                     /\ UNCHANGED <<wsRead, wsMsg>>
    /\ UNCHANGED <<wsOut, wsOpen, wsBroken, wsRet>>
    /\ UNCHANGED notWS

WriteMessageAsText(out, msgType, buf) == Append(out, Message(TextMessage, buf))

\* dst.WriteMessage(msgType, buf): one message of that type and payload
WriteMessage(out, msgType, buf) == Append(out, Message(msgType, buf))

\* copyWSMessages: dst.WriteMessage(msgType, buf); an error ends the task
WriteStep(src) ==
    /\ wspc[src] = "write"
    /\ IF wsOpen[Other(src)] /\ ~wsBroken[Other(src)]
       THEN /\ wsOut' = [wsOut EXCEPT ![Other(src)] =
                            WriteMessage(@, wsMsg[src].t, wsMsg[src].p)]
            /\ wspc' = [wspc EXCEPT ![src] = "read"]
            /\ UNCHANGED wsErr
       ELSE /\ wsErr' = [wsErr EXCEPT ![src] = "error"]
            /\ wspc' = [wspc EXCEPT ![src] = "closing"]
            /\ UNCHANGED wsOut
    /\ wsMsg' = [wsMsg EXCEPT ![src] = NoMessage]
    /\ UNCHANGED <<wsIn, wsRead, wsOpen, wsBroken, wsRet>>
    /\ UNCHANGED notWS

CloseDstSkipped(src) ==
    /\ wspc[src] = "closing"
    /\ wspc' = [wspc EXCEPT ![src] = "done"]
    /\ UNCHANGED <<wsIn, wsRead, wsOut, wsOpen, wsBroken, wsMsg, wsErr, wsRet>>
    /\ UNCHANGED notWS

\* the task's goroutine ends: the deferred Close of its destination runs
CloseDst(src) ==
    /\ wspc[src] = "closing"
    /\ wsOpen' = [wsOpen EXCEPT ![Other(src)] = FALSE]
    /\ wspc' = [wspc EXCEPT ![src] = "done"]
    /\ UNCHANGED <<wsIn, wsRead, wsOut, wsBroken, wsMsg, wsErr, wsRet>>
    /\ UNCHANGED notWS

\* g.Wait() returns once both tasks have ended, with an error if one had one
Wait ==
    /\ wsRet = "none"
    /\ \A c \in Conns : wspc[c] = "done"
    /\ wsRet' = IF \E c \in Conns : wsErr[c] = "error" THEN "error" ELSE "nil"
    /\ UNCHANGED <<wsIn, wsRead, wsOut, wsOpen, wsBroken, wspc, wsMsg, wsErr>>
    /\ UNCHANGED notWS

\* the steps of the copy task that reads from src
Task(src) == ReadMessage(src) \/ WriteStep(src) \/ CloseDst(src)

WSNext ==
    \/ \E c \in Conns : PeerSend(c)
    \/ \E c \in Conns : Break(c)
    \/ \E c \in Conns : ReadMessage(c)
    \/ \E c \in Conns : WriteStep(c)
    \/ \E c \in Conns : CloseDst(c)
    \/ Wait

\* C19: while both connections are open, what was written to one connection
\* is what was read from the other: the same messages, with their types and
\* payloads, in the same order, none lost and none twice, but for the one
\* message a task has read and not yet written; this holds for each direction.
C19_RelayInOrder ==
    \A src \in Conns :
        /\ IsPrefix(wsOut[Other(src)], wsRead[src])
        /\ (\A c \in Conns : wsOpen[c] /\ ~wsBroken[c]) =>
              wsRead[src] =
                 IF wspc[src] = "write"
                 THEN Append(wsOut[Other(src)], wsMsg[src])
                 ELSE wsOut[Other(src)]

\* both directions have relayed their messages, a binary one among them
C19_Witness ==
    /\ \A c \in Conns : wsOpen[c] /\ ~wsBroken[c] /\ Len(wsOut[c]) = 2
    /\ wsOut["c2"][1] = Message(BinaryMessage, "")
    /\ wsOut["c2"][2] = Message(TextMessage, "foobar")
    /\ wsOut["c1"][1] = Message(TextMessage, "foobar")

\* a direction has ended: copyWSMessages has returned in one of the tasks
Ended == \E c \in Conns : ~Running(c)

\* both connections are closed, both tasks are over, copyWSUntilError is back
AllDown ==
    /\ \A c \in Conns : ~wsOpen[c] /\ wspc[c] = "done"
    /\ wsRet # "none"

Missing == [kind |-> "missing", type |-> "", der |-> ""]
Text(t) == [kind |-> "text", type |-> "", der |-> t]
Pem(type, der) == [kind |-> "pem", type |-> type, der |-> der]
FileContents ==
    {Missing, Text(""), Text("garbage")}
    \cup {Pem(t, d) : t \in {"CERTIFICATE", "RSA PRIVATE KEY", "EC PRIVATE KEY"},
                      d \in {"cert", "key", "junk"}}

\* pem.Decode: the first PEM block of buf, or nil when buf holds none
NilBlock == [nil |-> TRUE, Type |-> "", Bytes |-> ""]
Decode(buf) ==
    IF buf.kind = "pem"
    THEN [nil |-> FALSE, Type |-> buf.type, Bytes |-> buf.der]
    ELSE NilBlock

\* block.Type on the block pem.Decode returned, as parseCertificate and
\* parsePrivateKey read it: a nil block makes the read a nil dereference
parsePEM(buf, wanted, der) ==
    LET block == Decode(buf)
    IN IF block.nil THEN "panic"
       ELSE IF block.Type # wanted THEN "malformed"
       ELSE IF block.Bytes = der THEN "ok" ELSE "parse error"

parseCertificate(buf) == parsePEM(buf, "CERTIFICATE", "cert")
parsePrivateKey(buf) == parsePEM(buf, "RSA PRIVATE KEY", "key")

\* ioutil.ReadFile, then the parse
LoadFile(f, parse(_)) == IF f.kind = "missing" THEN "not found" ELSE parse(f)

LoadInit ==
    /\ ldpc = "idle"
    /\ ldFiles = [cert |-> Missing, key |-> Missing]
    /\ ldRet = "none"

\* Load(certfile, keyfile) is called with the two files as they are then
LoadCall ==
    /\ ldpc = "idle"
    /\ \E c \in FileContents, k \in FileContents :
          ldFiles' = [cert |-> c, key |-> k]
    /\ ldpc' = "key"
    /\ ldRet' = "none"
    /\ UNCHANGED notLoad

\* Load: LoadPrivateKey(keyfile); an error is returned at once
LoadPrivateKey ==
    /\ ldpc = "key"
    /\ LET r == LoadFile(ldFiles.key, parsePrivateKey)
       IN IF r = "ok"
          THEN ldpc' = "cert" /\ UNCHANGED ldRet
          ELSE ldpc' = "done" /\ ldRet' = r
    /\ UNCHANGED ldFiles
    /\ UNCHANGED notLoad

\* Load: LoadCertificate(certfile), and the CertificateAuthority of both
LoadCertificate ==
    /\ ldpc = "cert"
    /\ LET r == LoadFile(ldFiles.cert, parseCertificate)
       IN ldRet' = IF r = "ok" THEN "ca" ELSE r
    /\ ldpc' = "done"
    /\ UNCHANGED ldFiles
    /\ UNCHANGED notLoad

\* the caller goes on, and may load again
LoadDone ==
    /\ ldpc = "done" /\ ldRet # "panic"
    /\ ldpc' = "idle"
    /\ UNCHANGED <<ldFiles, ldRet>>
    /\ UNCHANGED notLoad

LoadNext == LoadCall \/ LoadPrivateKey \/ LoadCertificate \/ LoadDone

\* C22: Load ends with a CertificateAuthority or with an error, whatever the
\* two files hold: not found for a missing file, malformed for content that
\* is no PEM block of the wanted type, content without any PEM block
\* included; it never ends abnormally.
C22_LoadTotal ==
    ldpc = "done" =>
        /\ ldRet \in {"ca", "not found", "malformed", "parse error"}
        /\ ldFiles.key.kind = "missing" => ldRet = "not found"
        /\ ldFiles.key.kind = "text" => ldRet = "malformed"
        /\ ldRet = "ca" =>
              /\ ldFiles.key = Pem("RSA PRIVATE KEY", "key")
              /\ ldFiles.cert = Pem("CERTIFICATE", "cert")

(***************************************************************************)
(* Store keys: store/key.go Key.Bytes, ParseKey                            *)
(***************************************************************************)
\* byte strings are sequences of characters
DigitChars == <<"0", "1", "2", "3", "4", "5", "6", "7", "8", "9">>
IsDigit(ch) == \E d \in DOMAIN DigitChars : DigitChars[d] = ch
DigitValue(ch) == (CHOOSE d \in DOMAIN DigitChars : DigitChars[d] = ch) - 1

RECURSIVE FormatUint(_)
\* fmt's %d of an unsigned number
FormatUint(n) ==
    IF n < 10 THEN <<DigitChars[n + 1]>>
    ELSE Append(FormatUint(n \div 10), DigitChars[(n % 10) + 1])

RECURSIVE ParseUint(_)
\* strconv.ParseUint(s, 10, 64) of a non-empty run of digits
ParseUint(ds) ==
    IF Len(ds) = 1 THEN DigitValue(ds[1])
    ELSE 10 * ParseUint(SubSeq(ds, 1, Len(ds) - 1)) + DigitValue(ds[Len(ds)])

ReqType == <<"R", "e", "q">>
ResType == <<"R", "e", "s">>
EditedPostfix == <<"E">>
OriginalPostfix == <<"O">>

Key(id, type, edited) == [ID |-> id, Type |-> type, Edited |-> edited]
NoKey == [ID |-> 0, Type |-> <<>>, Edited |-> FALSE]
KeyError(msg) == [err |-> msg, key |-> NoKey]

BytesNoPostfix(k) == FormatUint(k.ID) \o <<"-">> \o k.Type \o <<"-">> \o OriginalPostfix

\* Key.Bytes: KeyTemplate "%d-%s-%s" of the ID, the Type and the postfix
Bytes(k) ==
    FormatUint(k.ID) \o <<"-">> \o k.Type \o <<"-">>
        \o (IF k.Edited THEN EditedPostfix ELSE OriginalPostfix)

\* KeyRegex ^(\d+)-(.+)-(.+)$ on b: the three groups, or no match.  The
\* digits run to the first "-"; the second group is greedy, so the last "-"
\* that leaves a character behind it separates the second and third group
RegexGroups(b) ==
    LET n == IF \E i \in DOMAIN b : ~IsDigit(b[i])
             THEN (CHOOSE i \in DOMAIN b :
                      ~IsDigit(b[i]) /\ \A j \in 1..(i - 1) : IsDigit(b[j])) - 1
             ELSE Len(b)
        rest == SubSeq(b, n + 2, Len(b))
        cuts == {j \in DOMAIN rest : rest[j] = "-" /\ 1 < j /\ j < Len(rest)}
    IN IF n = 0 \/ n >= Len(b) \/ b[n + 1] # "-" \/ cuts = {}
       THEN <<>>
       ELSE LET j == CHOOSE c \in cuts : \A d \in cuts : d <= c
            IN <<SubSeq(b, 1, n), SubSeq(rest, 1, j - 1),
                 SubSeq(rest, j + 1, Len(rest))>>

\* ParseKey(storeKey)
ParseKey(storeKey) ==
    LET matches == RegexGroups(storeKey)
    IN IF matches = <<>> THEN KeyError("could not parse key")
       ELSE IF matches[2] # ReqType /\ matches[2] # ResType
       THEN KeyError("invalid key kind")
       ELSE IF matches[3] # OriginalPostfix /\ matches[3] # EditedPostfix
       THEN KeyError("invalid edited postfix")
       ELSE [err |-> "nil",
             key |-> Key(ParseUint(matches[1]), matches[2],
                         matches[3] = EditedPostfix)]

(***************************************************************************)
(* Transaction store: TxnStore.AddRequest, AddResponse, TxnSummaries       *)
(***************************************************************************)
TxnIDs == {5 * i : i \in 1..MaxTxns}

\* what is stored under a key: the Host of a request, the StatusCode of a
\* response (Method and URL of the summary are set as Host is)
ReqHostOf(k) == IF k.Edited THEN "edited.test" ELSE "a.test"
StatusOf(k) == IF k.Edited THEN 404 ELSE 200

NewSummary(id) ==
    [ID |-> id, Host |-> "", StatusCode |-> 0, ReqEdited |-> FALSE,
     ResEdited |-> FALSE, HasResponse |-> FALSE]

\* no result at hand, and the result of a failed call
NoSummaries == <<NewSummary(-1)>>
FailedSummaries == <<NewSummary(-2)>>

StoreInit ==
    /\ db = {}
    /\ summaries = NoSummaries
    /\ kpc = "idle"
    /\ keyIn = NoKey
    /\ keyBytes = <<>>
    /\ keyOut = KeyError("none")

\* txn.Set(key, value): the value of an existing key is replaced
Set(d, keybytes) == d \cup {keybytes}

\* TxnStore.AddRequest(id, req, edited)
AddRequest ==
    /\ \E id \in TxnIDs, edited \in BOOLEAN :
          db' = Set(db, Bytes(Key(id, ReqType, edited)))
    /\ summaries' = NoSummaries
    /\ UNCHANGED <<kpc, keyIn, keyBytes, keyOut>>
    /\ UNCHANGED notStore

\* TxnStore.AddResponse(id, res, body, edited)
AddResponse ==
    /\ \E id \in TxnIDs, edited \in BOOLEAN :
          db' = Set(db, Bytes(Key(id, ResType, edited)))
    /\ summaries' = NoSummaries
    /\ UNCHANGED <<kpc, keyIn, keyBytes, keyOut>>
    /\ UNCHANGED notStore

\* the character codes of the bytes that occur in keys
Code(ch) ==
    IF IsDigit(ch) THEN 48 + DigitValue(ch)
    ELSE CASE ch = "-" -> 45 [] ch = "E" -> 69 [] ch = "O" -> 79
           [] ch = "R" -> 82 [] ch = "e" -> 101 [] ch = "q" -> 113
           [] ch = "s" -> 115

\* bytes.Compare(a, b) < 0: the order the iterator visits the keys in
BytesLess(a, b) ==
    \E i \in 1..Len(b) :
        /\ \A j \in 1..(i - 1) : j <= Len(a) /\ a[j] = b[j]
        /\ \/ i = Len(a) + 1
           \/ i <= Len(a) /\ Code(a[i]) < Code(b[i])

VisitResponseOriginalOnly(summary, key) ==
    [summary EXCEPT
        !.HasResponse = @ \/ ~key.Edited,
        !.ResEdited = @ \/ key.Edited,
        !.StatusCode = IF key.Edited \/ @ = 0 THEN StatusOf(key) ELSE @]

\* TxnSummaries, loop body, case ResType
VisitResponse(summary, key) ==
    [summary EXCEPT
        !.HasResponse = TRUE,
        !.ResEdited = @ \/ key.Edited,
        !.StatusCode = IF key.Edited \/ @ = 0 THEN StatusOf(key) ELSE @]

\* TxnSummaries, loop body, case ReqType
VisitRequest(summary, key) ==
    [summary EXCEPT
        !.ReqEdited = @ \/ key.Edited,
        !.Host = IF key.Edited \/ @ = "" THEN ReqHostOf(key) ELSE @]

RECURSIVE Iterate(_, _)
\* TxnSummaries, the iteration over the items in key order: summaryMap, as a
\* set of summaries with one entry per ID, or an error for a key that does
\* not parse
Iterate(keys, summaryMap) ==
    IF keys = {} THEN [err |-> "nil", summaryMap |-> summaryMap]
    ELSE LET item == CHOOSE k \in keys : \A o \in keys \ {k} : BytesLess(k, o)
             parsed == ParseKey(item)
             key == parsed.key
             summary == IF \E m \in summaryMap : m.ID = key.ID
                        THEN CHOOSE m \in summaryMap : m.ID = key.ID
                        ELSE NewSummary(key.ID)
             visited == IF key.Type = ReqType THEN VisitRequest(summary, key)
                        ELSE VisitResponse(summary, key)
         IN IF parsed.err # "nil" THEN [err |-> parsed.err, summaryMap |-> {}]
            ELSE Iterate(keys \ {item},
                         {m \in summaryMap : m.ID # key.ID} \cup {visited})

RECURSIVE SortByID(_)
\* sort.Slice(summaries, ID ascending) of the values of summaryMap
SortByID(set) ==
    IF set = {} THEN <<>>
    ELSE LET least == CHOOSE m \in set : \A o \in set : m.ID <= o.ID
         IN <<least>> \o SortByID(set \ {least})

\* TxnStore.TxnSummaries
TxnSummaries ==
    /\ LET r == Iterate(db, {})
       IN summaries' = IF r.err = "nil" THEN SortByID(r.summaryMap)
                       ELSE FailedSummaries
    /\ UNCHANGED <<db, kpc, keyIn, keyBytes, keyOut>>
    /\ UNCHANGED notStore

StoreNext == AddRequest \/ AddResponse \/ TxnSummaries

\* the ids that have an item of that type and that edited flag in the store
Stored(type, edited) == {id \in TxnIDs : Bytes(Key(id, type, edited)) \in db}
StoredIDs == UNION {Stored(t, e) : t \in {ReqType, ResType}, e \in BOOLEAN}

\* C23: TxnSummaries returns one summary per id present in the store, in
\* strictly ascending order of id; ReqEdited (ResEdited) is true exactly when an
\* edited request (response) is stored under the id, HasResponse exactly when
\* a response is, edited or not.
C23_SummariesExact ==
    summaries # NoSummaries =>
        /\ {summaries[i].ID : i \in DOMAIN summaries} = StoredIDs
        /\ \A i \in DOMAIN summaries :
              /\ i > 1 => summaries[i - 1].ID < summaries[i].ID
              /\ summaries[i].ReqEdited <=> summaries[i].ID \in Stored(ReqType, TRUE)
              /\ summaries[i].ResEdited <=> summaries[i].ID \in Stored(ResType, TRUE)
              /\ summaries[i].HasResponse <=>
                    summaries[i].ID \in Stored(ResType, TRUE) \cup Stored(ResType, FALSE)

\* two summaries were returned: id 5 with both requests and an edited
\* response only, id 10 (whose key sorts before those of id 5) with an
\* original response besides its request
C23_Witness ==
    /\ Len(summaries) = 2
    /\ summaries[1].ID = 5 /\ summaries[1].ReqEdited /\ summaries[1].ResEdited
    /\ 5 \notin Stored(ResType, FALSE) /\ 5 \in Stored(ReqType, FALSE)
    /\ summaries[2].ID = 10 /\ summaries[2].HasResponse
    /\ ~summaries[2].ResEdited /\ ~summaries[2].ReqEdited

(***************************************************************************)
(* Key round trip                                                          *)
(***************************************************************************)
\* a Key is made and serialized
KeyBytes ==
    /\ kpc = "idle"
    /\ \E id \in 0..MaxKeyID, type \in {ReqType, ResType}, edited \in BOOLEAN :
          /\ keyIn' = Key(id, type, edited)
          /\ keyBytes' = Bytes(Key(id, type, edited))
    /\ kpc' = "bytes"
    /\ UNCHANGED <<db, summaries, keyOut>>
    /\ UNCHANGED notStore

\* the bytes are parsed back
KeyParse ==
    /\ kpc = "bytes"
    /\ keyOut' = ParseKey(keyBytes)
    /\ kpc' = "parsed"
    /\ UNCHANGED <<db, summaries, keyIn, keyBytes>>
    /\ UNCHANGED notStore

KeyNext == KeyBytes \/ KeyParse

\* C24: ParseKey(k.Bytes()) gives back k, for every id, both types and both
\* values of Edited; the bytes are the id in decimal, Req or Res, and O or E,
\* joined by "-".
C24_KeyRoundTrip ==
    kpc = "parsed" =>
        /\ keyOut = [err |-> "nil", key |-> keyIn]
        /\ keyBytes = FormatUint(keyIn.ID) \o <<"-">> \o keyIn.Type \o <<"-">>
                         \o <<IF keyIn.Edited THEN "E" ELSE "O">>
        /\ keyIn.ID = 107 /\ keyIn.Type = ResType =>
              keyBytes[1] = "1" /\ keyBytes[2] = "0" /\ keyBytes[3] = "7"
                 /\ SubSeq(keyBytes, 4, 8) = <<"-", "R", "e", "s", "-">>

\* the edited response key of id 107 came back from its bytes
C24_Witness ==
    /\ kpc = "parsed"
    /\ keyIn = Key(107, ResType, TRUE)
    /\ keyBytes = <<"1", "0", "7", "-", "R", "e", "s", "-", "E">>
    /\ keyOut.key = keyIn

(***************************************************************************)
(* Upstream probe: proxy/certificate_cache.go getCertificate               *)
(***************************************************************************)
Targets == {"a.test:443", "b.test:8443", "10.0.0.1"}
ProbeServerNames == {"", "sni.test", "a.test"}
\* clientConfig: nil, or a configuration whose settings are cloned
ClientConfigs == {"nil", "insecure"}
\* the certificate chains a server may present, each certificate by IsCA
PeerChains == {<<>>, <<FALSE>>, <<TRUE>>, <<TRUE, FALSE>>, <<FALSE, TRUE>>}

NoSNI == "none"
NoArgs == [target |-> "", serverName |-> "", clientConfig |-> "nil"]
NoConfig == [ServerName |-> "", InsecureSkipVerify |-> FALSE]

\* the configuration of the handshake: clientConfig.Clone() or an empty
\* tls.Config; cfg.ServerName = serverName; and then
\* cfg.ServerName = strings.Split(target, ":")[0]
ProbeConfig(target, serverName, clientConfig) ==
    LET cloned == [ServerName |-> "",
                   InsecureSkipVerify |-> clientConfig = "insecure"]
        named == [cloned EXCEPT !.ServerName = serverName]
    IN [named EXCEPT !.ServerName = HostOf(target)]

\* the first certificate of the chain that is no CA, or 0 when there is none
FirstLeaf(chain) ==
    IF \E i \in DOMAIN chain : ~chain[i]
    THEN CHOOSE i \in DOMAIN chain : ~chain[i] /\ \A j \in 1..(i - 1) : chain[j]
    ELSE 0

ProbeInit ==
    /\ gpc = "idle"
    /\ gin = NoArgs
    /\ gcfg = NoConfig
    /\ gconn = "none"
    /\ gsni = NoSNI
    /\ gchain = <<>>
    /\ gret = "none"

\* getCertificate(ctx, target, serverName, clientConfig) is called
GetCertificate ==
    /\ gpc = "idle"
    /\ \E t \in Targets, n \in ProbeServerNames, c \in ClientConfigs :
          gin' = [target |-> t, serverName |-> n, clientConfig |-> c]
    /\ gpc' = "dial"
    /\ gcfg' = NoConfig /\ gconn' = "none" /\ gsni' = NoSNI
    /\ gchain' = <<>> /\ gret' = "none"
    /\ UNCHANGED notProbe

\* dialer.DialContext; an error is returned; else the configuration is made
Dial ==
    /\ gpc = "dial"
    /\ \E ok \in BOOLEAN :
         IF ok
         THEN /\ gconn' = "open"
              /\ gcfg' = ProbeConfig(gin.target, gin.serverName, gin.clientConfig)
              /\ gpc' = "handshake"
              /\ UNCHANGED gret
         ELSE /\ gret' = "dial error" /\ gpc' = "done"
              /\ UNCHANGED <<gconn, gcfg>>
    /\ UNCHANGED <<gin, gsni, gchain>>
    /\ UNCHANGED notProbe

\* tls.Client(conn, cfg).Handshake(); on an error conn.Close() and return
ClientHandshake ==
    /\ gpc = "handshake"
    /\ gsni' = gcfg.ServerName
    /\ \/ /\ \E chain \in PeerChains : gchain' = chain
          /\ gpc' = "close"
          /\ UNCHANGED <<gconn, gret>>
       \/ /\ gconn' = "closed" /\ gret' = "handshake error" /\ gpc' = "done"
          /\ UNCHANGED gchain
    /\ UNCHANGED <<gin, gcfg>>
    /\ UNCHANGED notProbe

\* client.Close(), which closes the connection (conn.Close() on its error),
\* then the first peer certificate that is no CA
ClientClose ==
    /\ gpc = "close"
    /\ gconn' = "closed"
    /\ \E ok \in BOOLEAN :
         gret' = IF ~ok THEN "close error"
                 ELSE IF FirstLeaf(gchain) = 0
                 THEN "no certificate could be found"
                 ELSE "certificate"
    /\ gpc' = "done"
    /\ UNCHANGED <<gin, gcfg, gsni, gchain>>
    /\ UNCHANGED notProbe

\* the caller goes on
ProbeDone ==
    /\ gpc = "done"
    /\ gpc' = "idle"
    /\ UNCHANGED <<gin, gcfg, gconn, gsni, gchain, gret>>
    /\ UNCHANGED notProbe

ProbeNext ==
    GetCertificate \/ Dial \/ ClientHandshake \/ ClientClose \/ ProbeDone

\* C30: the probe's TLS client handshake is made with ServerName equal to the
\* serverName argument when that is not empty, and with the host of addr
\* (without the port) only when it is empty.
C30_ProbeUsesSNI ==
    gsni # NoSNI =>
        gsni = IF gin.serverName # "" THEN gin.serverName
               ELSE IF gin.target = "a.test:443" THEN "a.test"
               ELSE IF gin.target = "b.test:8443" THEN "b.test"
               ELSE gin.target

(***************************************************************************)
(* Request routing: proxy/proxy.go ServeProxyRequest, isWebsocketHandshake *)
(***************************************************************************)
\* header values are strings, written as sequences of characters
websocket == <<"w", "e", "b", "s", "o", "c", "k", "e", "t">>
UpgradeValues ==
    {websocket,
     <<"W", "e", "b", "S", "o", "c", "k", "e", "t">>,
     <<"h", "2", "c">>,
     <<"h", "2", "c", ",", " ", "w", "e", "b", "s", "o", "c", "k", "e", "t">>}

\* strings.ToLower on the characters that occur in UpgradeValues
LowerChar(c) ==
    CASE c = "W" -> "w"
      [] c = "S" -> "s"
      [] OTHER -> c
StringToLower(str) == [i \in DOMAIN str |-> LowerChar(str[i])]

\* strings.Contains
Contains(str, substr) ==
    \E i \in 0..(Len(str) - Len(substr)) :
        SubSeq(str, i + 1, i + Len(substr)) = substr

\* http.Header.Get: the first value of the field, "" when there is none
HeaderGet(values) == IF values = <<>> THEN <<>> ELSE values[1]

\* the test on every value of the field
isWebsocketHandshakeAnyValue(values) ==
    \E i \in DOMAIN values : Contains(StringToLower(values[i]), websocket)

\* isWebsocketHandshake(req)
isWebsocketHandshake(values) ==
    Contains(StringToLower(HeaderGet(values)), websocket)

RouteInit ==
    /\ dpc = "idle"
    /\ dupg = <<>>
    /\ dhooks = 0
    /\ dsteps = <<>>

\* ServeHTTP hands an Event to ServeProxyRequest; the pipeline holds the
\* hooks registered before
RouteArrive ==
    /\ dpc = "idle"
    /\ \E u \in SeqsUpTo(UpgradeValues, MaxUpgrades), n \in 0..MaxHooks :
          /\ dupg' = u
          /\ dhooks' = n
    /\ dpc' = "serve"
    /\ UNCHANGED dsteps
    /\ UNCHANGED notRoute

\* ServeProxyRequest: an upgrade candidate goes to HandleUpgradeRequest and
\* the handler returns after it; any other request goes through
\* prepareRequest, whose failure is answered with SendError
RouteRequest ==
    /\ dpc = "serve"
    /\ IF isWebsocketHandshake(dupg)
       THEN /\ dsteps' = <<"HandleUpgradeRequest">>
            /\ dpc' = "upgrade"
       ELSE \/ /\ dsteps' = <<"prepareRequest">>
               /\ dpc' = "pipeline"
            \/ /\ dsteps' = <<"prepareRequest", "SendError">>
               /\ dpc' = "done"
    /\ UNCHANGED <<dupg, dhooks>>
    /\ UNCHANGED notRoute

\* the hooks entered so far
HooksEntered == Cardinality({i \in DOMAIN dsteps : dsteps[i] = "hook"})

\* ForwardThroughPipeline: the next hook is entered; it calls
\* event.ForwardRequest or answers by itself
RouteHook ==
    /\ dpc = "pipeline" /\ HooksEntered < dhooks
    /\ dsteps' = Append(dsteps, "hook")
    /\ \E forwards \in BOOLEAN : dpc' = IF forwards THEN "pipeline" ELSE "done"
    /\ UNCHANGED <<dupg, dhooks>>
    /\ UNCHANGED notRoute

\* Proxy.ForwardRequest: p.client.Do(event.Req)
RouteClient ==
    /\ dpc = "pipeline" /\ HooksEntered = dhooks
    /\ dsteps' = Append(dsteps, "client")
    /\ dpc' = "done"
    /\ UNCHANGED <<dupg, dhooks>>
    /\ UNCHANGED notRoute

\* HandleUpgradeRequest: the upgrader answers the client and a copy of
\* websocket.DefaultDialer connects to the upstream
RouteUpgrade ==
    /\ dpc = "upgrade"
    /\ dsteps' = Append(dsteps, "dialer")
    /\ dpc' = "done"
    /\ UNCHANGED <<dupg, dhooks>>
    /\ UNCHANGED notRoute

RouteNext ==
    \/ RouteArrive
    \/ RouteRequest
    \/ RouteHook
    \/ RouteClient
    \/ RouteUpgrade

\* C38: a request goes to the upgrade handler exactly when its Upgrade
\* header field contains websocket in any case, and a request with such a
\* field is relayed without prepareRequest, without a hook and without the
\* shared upstream client.
C38_UpgradeBypassesHooks ==
    dsteps # <<>> =>
        /\ dsteps[1] = "HandleUpgradeRequest" <=>
               isWebsocketHandshakeAnyValue(dupg)
        /\ isWebsocketHandshakeAnyValue(dupg) =>
               \A i \in DOMAIN dsteps :
                   dsteps[i] \notin {"prepareRequest", "hook", "client"}

(***************************************************************************)
(* Specifications                                                          *)
(***************************************************************************)
Init ==
    /\ CacheInit /\ ProxyInit /\ PipeInit /\ RelayInit
    /\ EventInit /\ PrepInit /\ CAInit /\ IDInit /\ WSInit /\ LoadInit /\ StoreInit /\ ProbeInit /\ RouteInit

SpecCache == Init /\ [][CacheNext]_vars
SpecProxy == Init /\ [][ProxyNext]_vars
SpecPipeline == Init /\ [][PipeNext]_vars
SpecRelay == Init /\ [][RelayNext]_vars
SpecEvent == Init /\ [][EventNext]_vars
SpecPrepare == Init /\ [][PrepNext]_vars
SpecCA == Init /\ [][CANext]_vars
SpecIDs == Init /\ [][IDNext]_vars
SpecWS == Init /\ [][WSNext]_vars
\* each goroutine started by g.Go keeps running; a read blocks (is not enabled)
\* while there is nothing to return, and the environment owes nothing
SpecWSLive ==
    /\ Init /\ [][WSNext]_vars
    /\ \A c \in Conns : WF_vars(Task(c))
    /\ WF_vars(Wait)
SpecLoad == Init /\ [][LoadNext]_vars
SpecStore == Init /\ [][StoreNext]_vars
SpecKey == Init /\ [][KeyNext]_vars
SpecProbe == Init /\ [][ProbeNext]_vars
SpecRoute == Init /\ [][RouteNext]_vars

=============================================================================
